---- MODULE Spec2Model ----
(***************************************************************************)
(* Model of the Odyssey game server (src/ServerRS): the game loop's        *)
(* connection and zone book-keeping, player inventories and the market.    *)
(*                                                                         *)
(* Amounts that the code keeps in f64 OMEN are kept here in integer        *)
(* hundredths of an OMEN (the fee is rounded down to 1/100 OMEN, so every  *)
(* amount of the model is a whole number of hundredths and the f64         *)
(* arithmetic of the code is exact on them).  The one f64 value that is    *)
(* not a number, NaN, is the designated value NaN below, and every         *)
(* comparison and sum of the code goes through FLt .. FMul, which give     *)
(* NaN its IEEE-754 meaning: every comparison with it is false and every   *)
(* sum or product with it is NaN.                                          *)
(***************************************************************************)
EXTENDS Integers, Sequences, FiniteSets, TLC

VARIABLES
    zones,                \* zone id -> (player id -> Player): Zone.players
    connections,          \* conn ids with a registered outbound queue
    conn_to_player,       \* conn id -> player id
    player_to_conn,       \* player id -> conn id
    player_to_zone,       \* player id -> zone id
    next_player_id,
    authenticated_conns,  \* conn id -> account id
    player_account_ids,   \* player id -> account id
    db,                   \* the players table: a set of rows
    market,               \* [order_books, orders_by_id]
    quest_trackers,       \* player id -> QuestTracker
    last_save_time,       \* server time of the last auto-save
    next_conn_id,         \* NEXT_CONN_ID of the accept loop
    now,                  \* start_time.elapsed(), in milliseconds
    player_combat_stats,      \* player id -> CombatStats
    player_weapon_cooldowns,  \* player id -> (slot -> time of the last fire)
    player_death_times,       \* player id -> time of death, or NoTime
    zone_projectiles,         \* zone id -> the zone's projectiles, in order
    next_projectile_id,       \* NEXT_PROJECTILE_ID
    npcs,                     \* npc id -> NPC: npc_spawn_manager.npcs
    died_at,                  \* history: player id -> the server time at which
                              \* the hit points of a player now dead reached 0
    damaged,                  \* history: the pairs of a projectile's id and a
                              \* target that the projectile has damaged
    resource_nodes,           \* zone id -> (node id -> ResourceNode)
    mining_frames,            \* history: conn id -> the numbers of MINING_UPDATE
                              \* and NODE_DEPLETED frames handed to its channel
    mining_since,             \* history: player id -> when the player began to
                              \* mine and what it and the node held then
    crafting_queues,          \* player id -> the jobs of its CraftingQueue
    player_progression,       \* player id -> PlayerProgression
    player_equipment,         \* player id -> the slots of its PlayerEquipment
    net,                      \* the channels of main, the tasks of the
                              \* connections and the position of the game loop
    respawn_queue,            \* npc_spawn_manager.respawn_queue
    next_npc_id,              \* NEXT_NPC_ID; the ids are counted from 1
    quest_completions         \* history: <<player id, quest id>> -> the
                              \* number of times the player completed the
                              \* quest

vars == <<zones, connections, conn_to_player, player_to_conn, player_to_zone,
          next_player_id, authenticated_conns, player_account_ids, db,
          market, quest_trackers, last_save_time, next_conn_id, now,
          player_combat_stats, player_weapon_cooldowns, player_death_times,
          zone_projectiles, next_projectile_id, npcs, died_at, damaged,
          resource_nodes, mining_frames, mining_since,
          crafting_queues, player_progression,
                   player_equipment, net, respawn_queue,
                   next_npc_id, quest_completions>>

\* ------------------------------------------------------------------ bounds

MaxOrders == 3       \* orders registered in one run of the market
MaxElapse == 2       \* clock advances in one run of the connections
MaxConns == 2        \* connections accepted in one run
MaxPlayerId == 2     \* largest player id handed out in one run

\* --------------------------------------------------------------- constants

CENTS == 100                       \* hundredths per OMEN (fee rounding)
INVENTORY_CAPACITY == 200
STARTING_OMEN == 10000 * CENTS
MARKET_FEE_PERCENT == 5            \* MARKET_FEE_RATE = 0.05
DEFAULT_ZONE_ID == "uurf-orbit"
DISCONNECT_TIMEOUT_MS == 60000
TICK_INTERVAL_MS == 50
MAX_INPUT_BUFFER_SIZE == 10
AUTO_SAVE_INTERVAL_MS == 60000
MOVE_SPEED == 600                  \* units per second

ItemTypes == {"iron", "iron_plate", "carbon_fiber"}
\* the items the clients of the runs trade
TradedItems == {"iron"}
NoneVal == "None"

\* ------------------------------------------------------------------- f64

NaN == 0 - 1000000000

IsNaN(a) == a = NaN
FLt(a, b) == ~IsNaN(a) /\ ~IsNaN(b) /\ a < b
FLe(a, b) == ~IsNaN(a) /\ ~IsNaN(b) /\ a <= b
FGt(a, b) == ~IsNaN(a) /\ ~IsNaN(b) /\ a > b
FGe(a, b) == ~IsNaN(a) /\ ~IsNaN(b) /\ a >= b
FAdd(a, b) == IF IsNaN(a) \/ IsNaN(b) THEN NaN ELSE a + b
FSub(a, b) == IF IsNaN(a) \/ IsNaN(b) THEN NaN ELSE a - b
\* quantity (u32) as f64, times an f64
FMul(q, a) == IF IsNaN(a) THEN NaN ELSE q * a

\* f64::partial_cmp(..).unwrap_or(Ordering::Equal): -1 Less, 0 Equal, 1 Greater
partial_cmp_or_equal(a, b) ==
    IF IsNaN(a) \/ IsNaN(b) THEN 0
    ELSE IF a < b THEN -1 ELSE IF a > b THEN 1 ELSE 0

\* f64::total_cmp with a positive NaN: NaN is above every number
total_cmp_less(a, b) ==
    IF IsNaN(a) THEN FALSE ELSE IF IsNaN(b) THEN TRUE ELSE a < b

\* -------------------------------------------------------------- sequences

RemoveAt(s, i) == [j \in 1..(Len(s) - 1) |-> IF j < i THEN s[j] ELSE s[j + 1]]

\* The element of a one-element set: The({e(x) : x \in {v}}) is e(v), with v
\* computed once (a let binding of the source).
The(S) == CHOOSE x \in S : TRUE

Min(a, b) == IF a < b THEN a ELSE b

RECURSIVE SumOver(_, _)
SumOver(f, S) ==
    IF S = {} THEN 0
    ELSE LET x == CHOOSE y \in S : TRUE IN f[x] + SumOver(f, S \ {x})

\* -------------------------------------------------------------- hash maps

EmptyMap == [k \in {} |-> 0]
Insert(f, k, v) == [x \in (DOMAIN f) \cup {k} |-> IF x = k THEN v ELSE f[x]]
Remove(f, k) == [x \in (DOMAIN f) \ {k} |-> f[x]]

\* ------------------------------------------------------------- Inventory

\* Inventory.items holds an entry for an item iff its count is positive
\* (remove erases an entry that reaches 0); here a count of 0 is "no entry".
Inventory_new == [items |-> [i \in ItemTypes |-> 0], omen_balance |-> STARTING_OMEN]

Inventory_total(inv) == SumOver(inv.items, ItemTypes)

Inventory_add_ok(inv, item, qty) ==
    qty # 0 /\ Inventory_total(inv) + qty <= INVENTORY_CAPACITY

Inventory_add(inv, item, qty) ==
    IF Inventory_add_ok(inv, item, qty)
    THEN [inv EXCEPT !.items[item] = @ + qty]
    ELSE inv

Inventory_has(inv, item, qty) == inv.items[item] >= qty

Inventory_remove(inv, item, qty) ==
    IF qty = 0 \/ inv.items[item] < qty THEN inv
    ELSE [inv EXCEPT !.items[item] = @ - qty]

add_omen(inv, amount) ==
    IF FLe(amount, 0) THEN inv
    ELSE [inv EXCEPT !.omen_balance = FAdd(@, amount)]

remove_omen(inv, amount) ==
    IF FLe(amount, 0) THEN inv
    ELSE IF FLt(inv.omen_balance, amount) THEN inv
    ELSE [inv EXCEPT !.omen_balance = FSub(@, amount)]

\* ----------------------------------------------------------------- Market

\* A MarketOrder.  order_id is the number n of the string "order_n".
MarketOrder(order_id, player_id, item_type, quantity, price_per_unit, side, created_at) ==
    [order_id |-> order_id, player_id |-> player_id, item_type |-> item_type,
     quantity |-> quantity, filled_quantity |-> 0,
     price_per_unit |-> price_per_unit, side |-> side, status |-> "Open",
     created_at |-> created_at]

\* orders_by_id is a sequence: the order "order_n" is its n-th element, and
\* NEXT_ORDER_ID is its length + 1 (every generated id is registered at once).
Market_new == [order_books |-> EmptyMap, orders_by_id |-> << >>]

OrderBook_default == [buys |-> << >>, sells |-> << >>]

\* order_books.entry(item_type).or_default()
ensure_book(m, item_type) ==
    IF item_type \in DOMAIN m.order_books THEN m
    ELSE [m EXCEPT !.order_books = Insert(@, item_type, OrderBook_default)]

update_order_status(order) ==
    IF order.filled_quantity >= order.quantity
    THEN [order EXCEPT !.status = "Filled"]
    ELSE IF order.filled_quantity > 0
    THEN [order EXCEPT !.status = "Partial"]
    ELSE order

\* The comparator of book.buys.sort_by: highest price first, then earliest.
buys_cmp(a, b) ==
    LET c == partial_cmp_or_equal(b.price_per_unit, a.price_per_unit)
    IN  IF c # 0 THEN c ELSE partial_cmp_or_equal(a.created_at, b.created_at)

\* The comparator of book.sells.sort_by: lowest price first, then earliest.
sells_cmp(a, b) ==
    LET c == partial_cmp_or_equal(a.price_per_unit, b.price_per_unit)
    IN  IF c # 0 THEN c ELSE partial_cmp_or_equal(a.created_at, b.created_at)

book_cmp(side, a, b) == IF side = "Buy" THEN buys_cmp(a, b) ELSE sells_cmp(a, b)

\* slice::sort_by on a short slice (at most 20 elements) is a stable insertion
\* sort: each element in turn is shifted left past the elements it is less than.
RECURSIVE insert_tail(_, _, _)
insert_tail(side, s, x) ==
    IF s = << >> THEN <<x>>
    ELSE IF book_cmp(side, x, s[Len(s)]) = -1
         THEN Append(insert_tail(side, SubSeq(s, 1, Len(s) - 1), x), s[Len(s)])
         ELSE Append(s, x)

RECURSIVE sort_by(_, _)
sort_by(side, s) ==
    IF s = << >> THEN << >>
    ELSE insert_tail(side, sort_by(side, SubSeq(s, 1, Len(s) - 1)), s[Len(s)])

TradeResult(is_buy, incoming, counter, fill_qty) ==
    LET trade_price == counter.price_per_unit
        total_price == FMul(fill_qty, trade_price)
        \* (total_price * MARKET_FEE_RATE * 100.0).floor() / 100.0
        fee == IF IsNaN(total_price) THEN NaN
               ELSE (total_price * MARKET_FEE_PERCENT) \div 100
    IN  [buy_order_id |-> IF is_buy THEN incoming.order_id ELSE counter.order_id,
         sell_order_id |-> IF is_buy THEN counter.order_id ELSE incoming.order_id,
         buyer_id |-> IF is_buy THEN incoming.player_id ELSE counter.player_id,
         seller_id |-> IF is_buy THEN counter.player_id ELSE incoming.player_id,
         item_type |-> incoming.item_type,
         quantity |-> fill_qty,
         price_per_unit |-> trade_price,
         total_price |-> total_price,
         fee |-> fee]

price_match(is_buy, incoming, counter) ==
    IF is_buy
    THEN FLe(counter.price_per_unit, incoming.price_per_unit)
    ELSE FGe(counter.price_per_unit, incoming.price_per_unit)

fill_quantity(remaining_qty, counter) ==
    Min(remaining_qty, counter.quantity - counter.filled_quantity)

\* The while loop of match_order.  place_order hands match_order a closure
\* that returns None for every player, so the loop moves no items or OMEN:
\* the game loop settles the trades it returns.
RECURSIVE match_loop(_, _, _, _, _, _)
match_loop(counter_orders, i, incoming, remaining_qty, trades, orders_by_id) ==
    IF ~(i <= Len(counter_orders) /\ remaining_qty > 0)
    THEN [counter_orders |-> counter_orders, incoming |-> incoming,
          trades |-> trades, orders_by_id |-> orders_by_id]
    ELSE
      LET counter == counter_orders[i]
          is_buy == incoming.side = "Buy"
      IN
      IF counter.status \in {"Filled", "Cancelled"}
      THEN match_loop(RemoveAt(counter_orders, i), i, incoming, remaining_qty,
                      trades, orders_by_id)
      ELSE IF ~price_match(is_buy, incoming, counter)
      THEN [counter_orders |-> counter_orders, incoming |-> incoming,
            trades |-> trades, orders_by_id |-> orders_by_id]
      ELSE
        LET fill_qty == fill_quantity(remaining_qty, counter)
            incoming2 == update_order_status(
                [incoming EXCEPT !.filled_quantity = @ + fill_qty])
            counter2 == update_order_status(
                [counter EXCEPT !.filled_quantity = @ + fill_qty])
            by_id2 == [orders_by_id EXCEPT ![counter2.order_id] = counter2]
            trades2 == Append(trades, TradeResult(is_buy, incoming, counter, fill_qty))
        IN  IF counter2.filled_quantity >= counter2.quantity
            THEN match_loop(RemoveAt(counter_orders, i), i, incoming2,
                            remaining_qty - fill_qty, trades2, by_id2)
            ELSE match_loop([counter_orders EXCEPT ![i] = counter2], i + 1, incoming2,
                            remaining_qty - fill_qty, trades2, by_id2)

match_order(m, incoming) ==
    IF incoming.item_type \notin DOMAIN m.order_books
    THEN [market |-> m, incoming |-> incoming, trades |-> << >>]
    ELSE
    LET book == m.order_books[incoming.item_type]
        is_buy == incoming.side = "Buy"
        counter_orders == IF is_buy THEN book.sells ELSE book.buys
        r == match_loop(counter_orders, 1, incoming,
                        incoming.quantity - incoming.filled_quantity, << >>,
                        m.orders_by_id)
        book2 == IF is_buy THEN [book EXCEPT !.sells = r.counter_orders]
                 ELSE [book EXCEPT !.buys = r.counter_orders]
    IN  [market |-> [order_books |-> [m.order_books EXCEPT ![incoming.item_type] = book2],
                     orders_by_id |-> r.orders_by_id],
         incoming |-> r.incoming,
         trades |-> r.trades]

\* The order of a rejected request.
NoOrder == [order_id |-> 0]

\* place_order's validation without the test of the quantity
place_order_error_any_quantity(quantity, price_per_unit, side, item_type, inventory) ==
    IF FLe(price_per_unit, 0) THEN "Price must be positive"
    ELSE IF side = "Sell" /\ ~Inventory_has(inventory, item_type, quantity)
    THEN "Insufficient items"
    ELSE IF side = "Buy" /\ FLt(inventory.omen_balance, FMul(quantity, price_per_unit))
    THEN "Insufficient OMEN"
    ELSE NoneVal

place_order_error(quantity, price_per_unit, side, item_type, inventory) ==
    IF quantity = 0 THEN "Quantity must be a positive integer"
    ELSE IF FLe(price_per_unit, 0) THEN "Price must be positive"
    ELSE IF side = "Sell" /\ ~Inventory_has(inventory, item_type, quantity)
    THEN "Insufficient items"
    ELSE IF side = "Buy" /\ FLt(inventory.omen_balance, FMul(quantity, price_per_unit))
    THEN "Insufficient OMEN"
    ELSE NoneVal

escrow(inventory, item_type, quantity, price_per_unit, side) ==
    IF side = "Sell"
    THEN Inventory_remove(inventory, item_type, quantity)
    ELSE remove_omen(inventory, FMul(quantity, price_per_unit))

insert_into_book(book, order) ==
    IF order.side = "Buy"
    THEN [book EXCEPT !.buys = sort_by("Buy", Append(@, order))]
    ELSE [book EXCEPT !.sells = sort_by("Sell", Append(@, order))]

place_order(m, player_id, item_type, quantity, price_per_unit, side, inventory, current_time) ==
    LET error == place_order_error(quantity, price_per_unit, side, item_type, inventory)
    IN
    IF error # NoneVal
    THEN [market |-> m, inventory |-> inventory, order |-> NoOrder,
          trades |-> << >>, error |-> error]
    ELSE
      LET inv2 == escrow(inventory, item_type, quantity, price_per_unit, side)
          order == MarketOrder(Len(m.orders_by_id) + 1, player_id, item_type,
                               quantity, price_per_unit, side, current_time)
          m1 == ensure_book([m EXCEPT !.orders_by_id = Append(@, order)], item_type)
          r == match_order(m1, order)
          m2 == [r.market EXCEPT !.orders_by_id[order.order_id] = r.incoming]
          m3 == IF r.incoming.status # "Filled"
                THEN [m2 EXCEPT !.order_books[item_type] = insert_into_book(@, r.incoming)]
                ELSE m2
      IN  [market |-> m3, inventory |-> inv2, order |-> r.incoming,
           trades |-> r.trades, error |-> NoneVal]

RECURSIVE position(_, _, _)
position(list, order_id, i) ==
    IF i > Len(list) THEN 0
    ELSE IF list[i].order_id = order_id THEN i
    ELSE position(list, order_id, i + 1)

remove_from_list(list, order_id) ==
    LET idx == position(list, order_id, 1)
    IN  IF idx = 0 THEN list ELSE RemoveAt(list, idx)

\* remove_from_book without the removal
remove_from_book_kept(m, order) == m

remove_from_book(m, order) ==
    IF order.item_type \notin DOMAIN m.order_books THEN m
    ELSE IF order.side = "Buy"
    THEN [m EXCEPT !.order_books[order.item_type].buys = remove_from_list(@, order.order_id)]
    ELSE [m EXCEPT !.order_books[order.item_type].sells = remove_from_list(@, order.order_id)]

\* cancel_order's checks without the test of the owner
cancel_order_error_any_player(m, player_id, order_id) ==
    IF order_id \notin DOMAIN m.orders_by_id THEN "Order not found"
    ELSE IF m.orders_by_id[order_id].status \in {"Filled", "Cancelled"}
    THEN "Cannot cancel order with this status"
    ELSE NoneVal

cancel_order_error(m, player_id, order_id) ==
    IF order_id \notin DOMAIN m.orders_by_id THEN "Order not found"
    ELSE IF m.orders_by_id[order_id].player_id # player_id
    THEN "Order does not belong to this player"
    ELSE IF m.orders_by_id[order_id].status \in {"Filled", "Cancelled"}
    THEN "Cannot cancel order with this status"
    ELSE NoneVal

return_escrow(inventory, order) ==
    LET remaining == order.quantity - order.filled_quantity
    IN  IF order.side = "Sell"
        THEN Inventory_add(inventory, order.item_type, remaining)
        ELSE add_omen(inventory, FMul(remaining, order.price_per_unit))

cancel_order(m, player_id, order_id, inventory) ==
    LET error == cancel_order_error(m, player_id, order_id)
    IN
    IF error # NoneVal
    THEN [market |-> m, inventory |-> inventory, success |-> FALSE, error |-> error]
    ELSE
      LET order == m.orders_by_id[order_id]
          m1 == [m EXCEPT !.orders_by_id[order_id].status = "Cancelled"]
      IN  [market |-> remove_from_book(m1, order),
           inventory |-> return_escrow(inventory, order),
           success |-> TRUE, error |-> NoneVal]

\* aggregate_levels: the live orders of one side grouped by price in a
\* BTreeMap, whose iteration order is ascending price (f64::total_cmp).
live_orders(orders) ==
    {i \in 1..Len(orders) :
        /\ orders[i].status \notin {"Filled", "Cancelled"}
        /\ orders[i].quantity - orders[i].filled_quantity > 0}

level_entry(orders, price) ==
    LET at == {i \in live_orders(orders) : orders[i].price_per_unit = price}
        rem == [i \in at |-> orders[i].quantity - orders[i].filled_quantity]
    IN  [price_per_unit |-> price,
         total_quantity |-> SumOver(rem, at),
         order_count |-> Cardinality(at)]

RECURSIVE ascending(_)
ascending(prices) ==
    IF prices = {} THEN << >>
    ELSE LET lo == CHOOSE p \in prices : \A q \in prices \ {p} : total_cmp_less(p, q)
         IN  <<lo>> \o ascending(prices \ {lo})

aggregate_levels(orders) ==
    LET prices == {orders[i].price_per_unit : i \in live_orders(orders)}
        keys == ascending(prices)
    IN  [k \in 1..Len(keys) |-> level_entry(orders, keys[k])]

get_order_book(m, item_type) ==
    IF item_type \notin DOMAIN m.order_books
    THEN [buys |-> << >>, sells |-> << >>]
    ELSE [buys |-> aggregate_levels(m.order_books[item_type].buys),
          sells |-> aggregate_levels(m.order_books[item_type].sells)]

\* ----------------------------------------------------------------- Player

NoTime == 0 - 1     \* disconnect_time: None
NoNode == 0 - 1     \* mining_node_id: None

Player_new(spawn_x, spawn_y) ==
    [x |-> spawn_x, y |-> spawn_y, vx |-> 0, vy |-> 0,
     last_processed_seq |-> 0,
     input_buffer |-> << >>,
     is_disconnected |-> FALSE, disconnect_time |-> NoTime,
     inventory |-> Inventory_new,
     is_docked |-> FALSE,
     mining_node_id |-> NoNode]

stop_mining(player) == [player EXCEPT !.mining_node_id = NoNode]

\* ------------------------------------------------------------- GameServer

\* The fields of GameServer as one value, for the handlers below, which take
\* the server and return it as the handler leaves it.
\* main before a connection is accepted.  new_conn_rx, disconnect_rx and rx
\* are the three unbounded channels; tasks holds, for each connection that
\* was handed to handle_connection, whether its read task and its write task
\* run, where handle_connection stands and how many frames it has read.
\* The other fields are history: the connections add_connection was called
\* for, those of which a frame or a disconnect was handled before that, those
\* whose HELLO made a player, those handed a WELCOME, and those whose 0xFF
\* marker was handled.
Net_new ==
    [new_conn_rx |-> << >>, disconnect_rx |-> << >>, rx |-> << >>,
     tasks |-> EmptyMap, loop_pc |-> "select",
     registered |-> {}, early |-> {}, helloed |-> {}, welcomed |-> {},
     closed |-> {}]

Self ==
    [zones |-> zones, connections |-> connections,
     conn_to_player |-> conn_to_player, player_to_conn |-> player_to_conn,
     player_to_zone |-> player_to_zone, next_player_id |-> next_player_id,
     authenticated_conns |-> authenticated_conns,
     player_account_ids |-> player_account_ids, db |-> db,
     market |-> market, quest_trackers |-> quest_trackers,
     last_save_time |-> last_save_time,
     player_combat_stats |-> player_combat_stats,
     player_weapon_cooldowns |-> player_weapon_cooldowns,
     player_death_times |-> player_death_times,
     zone_projectiles |-> zone_projectiles,
     next_projectile_id |-> next_projectile_id,
     npcs |-> npcs,
     crafting_queues |-> crafting_queues,
     player_progression |-> player_progression,
     player_equipment |-> player_equipment,
     net |-> net,
     respawn_queue |-> respawn_queue,
     next_npc_id |-> next_npc_id,
     resource_nodes |-> resource_nodes,
     \* the PLAYER_JOINED and PLAYER_LEFT frames the handler has handed to the
     \* connections' channels so far, in the order of the sends
     frames |-> << >>,
     \* the answers the handler has sent to the requesting connection so far
     replies |-> << >>,
     \* the hits of the projectiles in the handler so far, each with the id of
     \* the projectile and the target it damaged
     hits |-> << >>]

\* The history of deaths once the server is self at server time time: a player
\* whose hit points are 0 died at time unless it was dead before, and a player
\* with hit points is not dead.
DiedAt(self, time) ==
    LET present == DOMAIN self.player_combat_stats
        dead == {p \in present : self.player_combat_stats[p].hp <= 0}
    IN  [p \in ((DOMAIN died_at) \cup dead) \ (present \ dead) |->
            IF p \in DOMAIN died_at THEN died_at[p] ELSE time]

\* The pairs of projectile and target of the hits the handler made.
Damaged(self) ==
    {<<self.hits[i].projectile, self.hits[i].target>> : i \in DOMAIN self.hits}

\* The number of frames of the type among frames that went to the connection.
FramesTo(frames, to, type_id) ==
    Cardinality({i \in DOMAIN frames :
                    frames[i].to = to /\ frames[i].type_id = type_id})

\* The history of mining frames once the handler has sent the frames of self.
MiningFrames(self) ==
    LET got == {self.frames[i].to : i \in
                   {j \in DOMAIN self.frames :
                       self.frames[j].type_id
                          \in {"MINING_UPDATE", "NODE_DEPLETED"}}}
        had(c) == IF c \in DOMAIN mining_frames THEN mining_frames[c]
                  ELSE [updates |-> 0, depleted |-> 0]
    IN  [c \in (DOMAIN mining_frames) \cup got |->
            [updates |-> had(c).updates
                            + FramesTo(self.frames, c, "MINING_UPDATE"),
             depleted |-> had(c).depleted
                            + FramesTo(self.frames, c, "NODE_DEPLETED")]]

\* Whether the player is in a zone of server and mines there.
IsMining(server, p) ==
    /\ p \in DOMAIN server.player_to_zone
    /\ p \in DOMAIN server.zones[server.player_to_zone[p]]
    /\ server.zones[server.player_to_zone[p]][p].mining_node_id # NoNode

\* The history of the starts of mining once the server is self at server time
\* time: a player that begins to mine is noted with the time, its inventory
\* total, what its node holds and the mining frames its connection has had; the
\* note is dropped when a request or a disconnect stops the mining or the
\* player leaves the server, and kept when a tick stops it.
MiningSince(self, time) ==
    LET present == {p \in DOMAIN self.player_to_zone :
                       p \in DOMAIN self.zones[self.player_to_zone[p]]}
        begun == {p \in present : IsMining(self, p) /\ ~IsMining(Self, p)}
        kept == {p \in (DOMAIN mining_since) \cap present :
                    IsMining(self, p) \/ ~IsMining(Self, p) \/ time # now}
        note(p) ==
            LET z == self.player_to_zone[p]
                k == self.zones[z][p].mining_node_id
                c == IF p \in DOMAIN self.player_to_conn
                     THEN self.player_to_conn[p] ELSE 0
            IN  [time |-> time,
                 inventory_total |-> Inventory_total(self.zones[z][p].inventory),
                 current_amount |-> self.resource_nodes[z][k].current_amount,
                 updates |-> IF c \in DOMAIN mining_frames
                             THEN mining_frames[c].updates ELSE 0,
                 depleted |-> IF c \in DOMAIN mining_frames
                              THEN mining_frames[c].depleted ELSE 0]
    IN  [p \in begun \cup kept |->
            IF p \in begun THEN note(p) ELSE mining_since[p]]

\* The history of completions once the server is self: a quest that is among
\* the completed quests of a player's tracker and was not before the handler
\* has been completed once more.
QuestCompletions(self) ==
    LET done == {pq \in UNION {{<<p, q>> :
                                   q \in self.quest_trackers[p].completed_quests} :
                               p \in DOMAIN self.quest_trackers} :
                    \/ pq[1] \notin DOMAIN quest_trackers
                    \/ pq[2] \notin quest_trackers[pq[1]].completed_quests}
    IN  [pq \in (DOMAIN quest_completions) \cup done |->
            (IF pq \in DOMAIN quest_completions THEN quest_completions[pq]
             ELSE 0) + (IF pq \in done THEN 1 ELSE 0)]

\* The history of a server that starts with the trackers qts: each completed
\* quest was completed once.
CompletedOnce(qts) ==
    [pq \in UNION {{<<p, q>> : q \in qts[p].completed_quests} :
                   p \in DOMAIN qts} |-> 1]

BecomesAt(self, time) ==
    /\ quest_completions' = QuestCompletions(self)
    /\ died_at' = DiedAt(self, time)
    /\ damaged' = damaged \cup Damaged(self)
    /\ mining_frames' = MiningFrames(self)
    /\ mining_since' = MiningSince(self, time)
    /\ crafting_queues' = self.crafting_queues
    /\ player_progression' = self.player_progression
    /\ player_equipment' = self.player_equipment
    /\ net' = self.net
    /\ respawn_queue' = self.respawn_queue
    /\ next_npc_id' = self.next_npc_id
    /\ zones' = self.zones
    /\ connections' = self.connections
    /\ conn_to_player' = self.conn_to_player
    /\ player_to_conn' = self.player_to_conn
    /\ player_to_zone' = self.player_to_zone
    /\ next_player_id' = self.next_player_id
    /\ authenticated_conns' = self.authenticated_conns
    /\ player_account_ids' = self.player_account_ids
    /\ db' = self.db
    /\ market' = self.market
    /\ quest_trackers' = self.quest_trackers
    /\ last_save_time' = self.last_save_time
    /\ player_combat_stats' = self.player_combat_stats
    /\ player_weapon_cooldowns' = self.player_weapon_cooldowns
    /\ player_death_times' = self.player_death_times
    /\ zone_projectiles' = self.zone_projectiles
    /\ next_projectile_id' = self.next_projectile_id
    /\ npcs' = self.npcs
    /\ resource_nodes' = self.resource_nodes

Becomes(self) == BecomesAt(self, now)

\* player_to_zone.get(id), zones.get_mut(zone), zone.get_player_mut(id) all hit
has_player(self, player_id) ==
    /\ player_id \in DOMAIN self.player_to_zone
    /\ self.player_to_zone[player_id] \in DOMAIN self.zones
    /\ player_id \in DOMAIN self.zones[self.player_to_zone[player_id]]

get_player(self, player_id) ==
    self.zones[self.player_to_zone[player_id]][player_id]

\* Zone::get_active_players, as the set of their ids
get_active_players(self, zone_id) ==
    {k \in DOMAIN self.zones[zone_id] : ~self.zones[zone_id][k].is_disconnected}

\* send_to_conn: the frame goes out if the connection is registered
send_to_conn(self, conn_id, type_id, id) ==
    IF conn_id \in self.connections
    THEN [self EXCEPT !.frames = Append(@, [to |-> conn_id, type_id |-> type_id,
                                           id |-> id])]
    ELSE self

\* One frame to each of the players player_ids, in the order the zone's
\* HashMap yields them (the order is not observable by one receiver).
RECURSIVE send_to_players(_, _, _, _)
send_to_players(self, player_ids, type_id, id) ==
    IF player_ids = {} THEN self
    ELSE LET p == CHOOSE k \in player_ids : TRUE
         IN  send_to_players(
               IF p \in DOMAIN self.player_to_conn
               THEN send_to_conn(self, self.player_to_conn[p], type_id, id)
               ELSE self,
               player_ids \ {p}, type_id, id)

\* a broadcast that reaches nobody
broadcast_to_nobody(self, zone_id, exclude_id, type_id, id) == self

broadcast_to_zone_except(self, zone_id, exclude_id, type_id, id) ==
    IF zone_id \notin DOMAIN self.zones THEN self
    ELSE send_to_players(self, get_active_players(self, zone_id) \ {exclude_id},
                         type_id, id)

broadcast_to_zone(self, zone_id, type_id, id) ==
    IF zone_id \notin DOMAIN self.zones THEN self
    ELSE send_to_players(self, get_active_players(self, zone_id), type_id, id)

\* The PLAYER_JOINED frames that tell conn_id of the players already active
\* in the zone.
RECURSIVE send_existing_players(_, _, _)
send_existing_players(self, conn_id, player_ids) ==
    IF player_ids = {} THEN self
    ELSE LET p == CHOOSE k \in player_ids : TRUE
         IN  send_existing_players(send_to_conn(self, conn_id, "PLAYER_JOINED", p),
                                   conn_id, player_ids \ {p})

set_inventory(self, player_id, inv) ==
    [self EXCEPT !.zones[self.player_to_zone[player_id]][player_id].inventory = inv]

\* ------------------------------------------------------------ progression

MAX_LEVEL == 50
XP_REWARD_MINING == 1
XP_REWARD_CRAFTING == 10
XP_REWARD_COMBAT_KILL == 50

xp_for_next_level(level) == 100 * level + 50 * level * level

\* PlayerProgression::new
PlayerProgression_new ==
    [level |-> 1, xp |-> 0, skill_points |-> 0,
     next_level_xp |-> xp_for_next_level(1)]

\* The loop of add_xp; r holds the progression and the payloads pushed so far.
RECURSIVE level_ups(_)
level_ups(r) ==
    IF r.prog.xp >= r.prog.next_level_xp /\ r.prog.level < MAX_LEVEL
    THEN The({level_ups(
                 [prog |-> raised,
                  level_ups |-> Append(r.level_ups,
                      [level |-> raised.level, xp |-> raised.xp,
                       next_level_xp |-> raised.next_level_xp,
                       skill_points |-> raised.skill_points])]) :
              raised \in {[level |-> r.prog.level + 1,
                           xp |-> r.prog.xp - r.prog.next_level_xp,
                           skill_points |-> r.prog.skill_points + 1,
                           next_level_xp |->
                               xp_for_next_level(r.prog.level + 1)]}})
    ELSE r

\* PlayerProgression::add_xp: the progression as it is left, and the
\* LevelUpPayloads returned.
add_xp(prog, amount) ==
    IF amount = 0 THEN [prog |-> prog, level_ups |-> << >>]
    ELSE IF prog.level >= MAX_LEVEL THEN [prog |-> prog, level_ups |-> << >>]
    ELSE The({IF r.prog.level >= MAX_LEVEL
              THEN [r EXCEPT !.prog.xp = 0, !.prog.next_level_xp = 0]
              ELSE r :
              r \in {level_ups([prog |-> [prog EXCEPT !.xp = @ + amount],
                                level_ups |-> << >>])}})

\* The LEVEL_UP frames of award_xp, one for each payload.
RECURSIVE send_level_ups(_, _, _, _)
send_level_ups(self, conn_id, payloads, i) ==
    IF i > Len(payloads) THEN self
    ELSE send_level_ups(send_to_conn(self, conn_id, "LEVEL_UP",
                                     payloads[i].level),
                        conn_id, payloads, i + 1)

\* GameServer::award_xp; the frame of send_ship_stats follows the LEVEL_UP
\* frames.
award_xp(self, player_id, amount) ==
    IF amount = 0 THEN self
    ELSE IF player_id \notin DOMAIN self.player_progression THEN self
    ELSE The({IF r.level_ups = << >>
              THEN [self EXCEPT !.player_progression[player_id] = r.prog]
              ELSE send_to_conn(
                     send_level_ups(
                       [self EXCEPT !.player_progression[player_id] = r.prog],
                       IF player_id \in DOMAIN self.player_to_conn
                       THEN self.player_to_conn[player_id] ELSE 0,
                       r.level_ups, 1),
                     IF player_id \in DOMAIN self.player_to_conn
                     THEN self.player_to_conn[player_id] ELSE 0,
                     "SHIP_STATS_UPDATE", player_id) :
              r \in {add_xp(self.player_progression[player_id], amount)}})

\* ------------------------------------------------------------------ quests
\* OMEN amounts are in hundredths, as the balances are.

NoQuest == [id |-> "None"]

\* get_quest_by_id, for five quests of the database
get_quest_by_id(quest_id) ==
    CASE quest_id = "first_steps" ->
           [id |-> quest_id, level |-> 1, prerequisites |-> {},
            is_repeatable |-> FALSE,
            objectives |-> <<[objective_type |-> "Mine", target |-> "any",
                              required |-> 10, current |-> 0]>>,
            rewards |-> <<[reward_type |-> "omen", amount |-> 50 * CENTS],
                          [reward_type |-> "xp", amount |-> 100]>>]
      [] quest_id = "crafting_basics" ->
           [id |-> quest_id, level |-> 2, prerequisites |-> {"first_steps"},
            is_repeatable |-> FALSE,
            objectives |-> <<[objective_type |-> "Craft", target |-> "any",
                              required |-> 1, current |-> 0]>>,
            rewards |-> <<[reward_type |-> "omen", amount |-> 100 * CENTS],
                          [reward_type |-> "xp", amount |-> 200]>>]
      [] quest_id = "market_trader" ->
           [id |-> quest_id, level |-> 3, prerequisites |-> {"crafting_basics"},
            is_repeatable |-> FALSE,
            objectives |-> <<[objective_type |-> "Sell", target |-> "any",
                              required |-> 5, current |-> 0]>>,
            rewards |-> <<[reward_type |-> "omen", amount |-> 200 * CENTS],
                          [reward_type |-> "xp", amount |-> 300]>>]
      [] quest_id = "system_explorer" ->
           [id |-> quest_id, level |-> 3, prerequisites |-> {"first_steps"},
            is_repeatable |-> FALSE,
            objectives |-> <<[objective_type |-> "Visit",
                              target |-> "proxima_1",
                              required |-> 1, current |-> 0],
                             [objective_type |-> "Visit", target |-> "belt_1",
                              required |-> 1, current |-> 0]>>,
            rewards |-> <<[reward_type |-> "omen", amount |-> 300 * CENTS],
                          [reward_type |-> "xp", amount |-> 400]>>]
      [] quest_id = "daily_mining" ->
           [id |-> quest_id, level |-> 1, prerequisites |-> {},
            is_repeatable |-> TRUE,
            objectives |-> <<[objective_type |-> "Mine", target |-> "any",
                              required |-> 100, current |-> 0]>>,
            rewards |-> <<[reward_type |-> "omen", amount |-> 200 * CENTS],
                          [reward_type |-> "xp", amount |-> 300]>>]
      [] OTHER -> NoQuest

\* QuestTracker::new
QuestTracker_new ==
    [active_quests |-> EmptyMap, completed_quests |-> {},
     crafted_item_types |-> {}]

\* QuestTracker::accept_quest: the tracker as it is left and the error
accept_quest(qt, quest_id, player_level) ==
    LET quest == get_quest_by_id(quest_id)
        refused(error) == [qt |-> qt, error |-> error]
    IN  IF quest_id \in DOMAIN qt.active_quests
        THEN refused("Quest is already active")
        ELSE IF quest = NoQuest THEN refused("Unknown quest")
        ELSE IF quest.level > player_level THEN refused("Requires level")
        ELSE IF ~quest.is_repeatable /\ quest_id \in qt.completed_quests
        THEN refused("Quest already completed")
        ELSE IF ~(quest.prerequisites \subseteq qt.completed_quests)
        THEN refused("Prerequisite not met")
        ELSE [qt |-> [qt EXCEPT !.active_quests =
                         Insert(@, quest_id,
                                [status |-> "active",
                                 objectives |->
                                     [i \in DOMAIN quest.objectives |->
                                         [quest.objectives[i] EXCEPT
                                             !.current = 0]]])],
              error |-> "None"]

\* QuestTracker::abandon_quest: the tracker as it is left
abandon_quest(qt, quest_id) ==
    [qt EXCEPT !.active_quests = Remove(@, quest_id)]

\* QuestTracker::restore_active_quests: the tracker as it is left
restore_active_quests(qt, entries) ==
    [qt EXCEPT !.active_quests =
        [q \in (DOMAIN @) \cup (DOMAIN entries) |->
            IF q \in DOMAIN entries THEN entries[q] ELSE @[q]]]

\* QuestTracker::export_active_quests
export_active_quests(qt) == qt.active_quests

\* str::starts_with, for the targets and the prefixes of the runs
starts_with(target, prefix) ==
    \/ prefix = "belt_" /\ target = "belt_1"
    \/ prefix = "pirate" /\ target \in {"pirate_scout", "pirate"}

objective_matches_target(objective, event_target) ==
    \/ objective.target = event_target
    \/ objective.target = "any"
    \/ objective.target = "pirate_any" /\ starts_with(event_target, "pirate")
    \/ objective.target = "belt_any" /\ starts_with(event_target, "belt_")
    \/ objective.target = "unique_items" /\ objective.objective_type = "Craft"

\* Whether update_objective touches the objective
objective_touched(objective, objective_type, target) ==
    /\ objective.current < objective.required
    /\ objective.objective_type = objective_type
    /\ objective_matches_target(objective, target)

\* QuestTracker::update_objective: the tracker as it is left and the ids of
\* the quests with an objective that was touched.
update_objective(qt, objective_type, target, amount) ==
    LET crafted == IF objective_type = "Craft"
                   THEN qt.crafted_item_types \cup {target}
                   ELSE qt.crafted_item_types
        advanced(objective) ==
            IF ~objective_touched(objective, objective_type, target)
            THEN objective
            ELSE IF objective.target = "unique_items"
            THEN [objective EXCEPT
                     !.current = IF Cardinality(crafted) < objective.required
                                 THEN Cardinality(crafted)
                                 ELSE objective.required]
            ELSE [objective EXCEPT
                     !.current = IF @ + amount < objective.required
                                 THEN @ + amount ELSE objective.required]
    IN  [qt |-> [qt EXCEPT
                   !.crafted_item_types = crafted,
                   !.active_quests =
                       [q \in DOMAIN @ |->
                           IF @[q].status # "active" THEN @[q]
                           ELSE [@[q] EXCEPT !.objectives =
                                    [i \in DOMAIN @ |-> advanced(@[i])]]]],
         updated |-> {q \in DOMAIN qt.active_quests :
                        /\ qt.active_quests[q].status = "active"
                        /\ \E i \in DOMAIN qt.active_quests[q].objectives :
                              objective_touched(
                                  qt.active_quests[q].objectives[i],
                                  objective_type, target)}]

\* The variant of check_completion that takes one finished objective for all.
check_completion_any(qt, quest_id) ==
    IF quest_id \notin DOMAIN qt.active_quests
    THEN [qt |-> qt, completed |-> FALSE, rewards |-> << >>]
    ELSE IF qt.active_quests[quest_id].status # "active"
    THEN [qt |-> qt, completed |-> FALSE, rewards |-> << >>]
    ELSE IF ~(\E i \in DOMAIN qt.active_quests[quest_id].objectives :
                 qt.active_quests[quest_id].objectives[i].current
                    >= qt.active_quests[quest_id].objectives[i].required)
    THEN [qt |-> qt, completed |-> FALSE, rewards |-> << >>]
    ELSE IF get_quest_by_id(quest_id) = NoQuest
    THEN [qt |-> qt, completed |-> FALSE, rewards |-> << >>]
    ELSE [qt |-> [qt EXCEPT
                    !.active_quests = Remove(@, quest_id),
                    !.completed_quests = @ \cup {quest_id}],
          completed |-> TRUE, rewards |-> get_quest_by_id(quest_id).rewards]

\* QuestTracker::check_completion: the tracker as it is left, and the
\* rewards if the quest is completed.
check_completion(qt, quest_id) ==
    IF quest_id \notin DOMAIN qt.active_quests
    THEN [qt |-> qt, completed |-> FALSE, rewards |-> << >>]
    ELSE IF qt.active_quests[quest_id].status # "active"
    THEN [qt |-> qt, completed |-> FALSE, rewards |-> << >>]
    ELSE IF ~(\A i \in DOMAIN qt.active_quests[quest_id].objectives :
                 qt.active_quests[quest_id].objectives[i].current
                    >= qt.active_quests[quest_id].objectives[i].required)
    THEN [qt |-> qt, completed |-> FALSE, rewards |-> << >>]
    ELSE IF get_quest_by_id(quest_id) = NoQuest
    THEN [qt |-> qt, completed |-> FALSE, rewards |-> << >>]
    ELSE [qt |-> [qt EXCEPT
                    !.active_quests = Remove(@, quest_id),
                    !.completed_quests = @ \cup {quest_id}],
          completed |-> TRUE, rewards |-> get_quest_by_id(quest_id).rewards]

\* The loop of update_quest_objectives over the updated quests, in the order
\* update_objective lists them: r holds the tracker and the completions.
RECURSIVE check_completions(_, _)
check_completions(r, quest_ids) ==
    IF quest_ids = {} THEN r
    ELSE LET q == CHOOSE k \in quest_ids : TRUE
             c == check_completion(r.qt, q)
         IN  check_completions(
               [qt |-> c.qt,
                completions |-> IF c.completed
                                THEN Append(r.completions,
                                            [quest_id |-> q,
                                             rewards |-> c.rewards])
                                ELSE r.completions],
               quest_ids \ {q})

\* One QUEST_PROGRESS frame for each quest of quest_ids
RECURSIVE send_progress(_, _, _)
send_progress(self, conn_id, quest_ids) ==
    IF quest_ids = {} THEN self
    ELSE LET q == CHOOSE k \in quest_ids : TRUE
         IN  send_progress(send_to_conn(self, conn_id, "QUEST_PROGRESS", q),
                           conn_id, quest_ids \ {q})

\* One reward of a completed quest, as update_quest_objectives applies it
apply_reward(self, player_id, conn_id, reward) ==
    IF reward.reward_type = "omen"
    THEN IF has_player(self, player_id)
         THEN set_inventory(self, player_id,
                            add_omen(get_player(self, player_id).inventory,
                                     reward.amount))
         ELSE self
    ELSE IF reward.reward_type = "xp"
    THEN IF player_id \in DOMAIN self.player_progression
         THEN The({send_level_ups(
                     [self EXCEPT !.player_progression[player_id] = r.prog],
                     conn_id, r.level_ups, 1) :
                   r \in {add_xp(self.player_progression[player_id],
                                 reward.amount)}})
         ELSE self
    ELSE self

RECURSIVE apply_rewards(_, _, _, _, _)
apply_rewards(self, player_id, conn_id, rewards, i) ==
    IF i > Len(rewards) THEN self
    ELSE The({apply_rewards(s, player_id, conn_id, rewards, i + 1) :
              s \in {apply_reward(self, player_id, conn_id, rewards[i])}})

\* The QUEST_COMPLETE frame and the rewards of each completion
RECURSIVE complete_quests(_, _, _, _, _)
complete_quests(self, player_id, conn_id, completions, i) ==
    IF i > Len(completions) THEN self
    ELSE The({complete_quests(s, player_id, conn_id, completions, i + 1) :
              s \in {apply_rewards(
                       send_to_conn(self, conn_id, "QUEST_COMPLETE",
                                    completions[i].quest_id),
                       player_id, conn_id, completions[i].rewards, 1)}})

\* The first block of update_quest_objectives: the tracker as it is left,
\* the quests updated and the completions.
quest_updates(qt, obj_type, target, amount) ==
    LET u == update_objective(qt, obj_type, target, amount)
        c == check_completions([qt |-> u.qt, completions |-> << >>],
                               u.updated)
    IN  [qt |-> c.qt, updated |-> u.updated, completions |-> c.completions]

update_quest_objectives(self, player_id, obj_type, target, amount) ==
    IF player_id \notin DOMAIN self.quest_trackers THEN self
    ELSE
      The({complete_quests(
             send_progress(
               [self EXCEPT !.quest_trackers[player_id] = r.qt],
               IF player_id \in DOMAIN self.player_to_conn
               THEN self.player_to_conn[player_id] ELSE 0,
               r.updated),
             player_id,
             IF player_id \in DOMAIN self.player_to_conn
             THEN self.player_to_conn[player_id] ELSE 0,
             r.completions, 1) :
           r \in {quest_updates(self.quest_trackers[player_id], obj_type,
                                target, amount)}})

handle_quest_accept(self, conn_id, quest_id) ==
    IF conn_id \notin DOMAIN self.conn_to_player THEN self
    ELSE
      LET player_id == self.conn_to_player[conn_id]
          player_level == IF player_id \in DOMAIN self.player_progression
                          THEN self.player_progression[player_id].level
                          ELSE 1
      IN  IF player_id \notin DOMAIN self.quest_trackers THEN self
          ELSE The({send_to_conn(
                      [self EXCEPT !.quest_trackers[player_id] = r.qt],
                      conn_id, "QUEST_ACCEPT", r.error) :
                    r \in {accept_quest(self.quest_trackers[player_id],
                                        quest_id, player_level)}})

handle_quest_abandon(self, conn_id, quest_id) ==
    IF conn_id \notin DOMAIN self.conn_to_player THEN self
    ELSE
      LET player_id == self.conn_to_player[conn_id]
      IN  IF player_id \notin DOMAIN self.quest_trackers THEN self
          ELSE send_to_conn(
                 [self EXCEPT !.quest_trackers[player_id] =
                                  abandon_quest(@, quest_id)],
                 conn_id, "QUEST_ABANDON",
                 IF quest_id \in DOMAIN self.quest_trackers[player_id]
                                     .active_quests
                 THEN "None" ELSE "Quest not found or not active")

\* ------------------------------------------------------------------ galaxy

ZoneIds == {"uurf-orbit", "uurf-hub", "uurf-surface", "asteroid-belt-alpha"}

\* Zone.bounds: every zone is the square |x| <= half, |y| <= half
zone_half(zone_id) ==
    CASE zone_id = "uurf-orbit" -> 2500
      [] zone_id = "uurf-hub" -> 1000
      [] zone_id = "uurf-surface" -> 2000
      [] zone_id = "asteroid-belt-alpha" -> 3000

\* Zone.connections
zone_connections(zone_id) ==
    IF zone_id = "uurf-orbit"
    THEN <<"uurf-hub", "uurf-surface", "asteroid-belt-alpha">>
    ELSE <<"uurf-orbit">>

is_out_of_bounds(zone_id, x, y) ==
    \/ x < 0 - zone_half(zone_id) \/ x > zone_half(zone_id)
    \/ y < 0 - zone_half(zone_id) \/ y > zone_half(zone_id)

\* random_spawn_position draws a point of the zone; the runs draw one of two:
\* the centre, and a point less than one step of movement from the right edge.
SpawnDraws == {"centre", "edge"}
random_spawn_position(zone_id, draw) ==
    IF draw = "centre" THEN <<0, 0>> ELSE <<zone_half(zone_id) - 20, 0>>

create_sol_proxima == [z \in ZoneIds |-> EmptyMap]

\* ------------------------------------------------------------------ combat
\* Hit points, shield points and damage are whole numbers in every path of the
\* code the runs take; times are in milliseconds and distances in world units.

DEFAULT_MAX_HP == 100
DEFAULT_MAX_SHIELD == 50
DEFAULT_SHIELD_REGEN_RATE == 2          \* shield points per tick
DEFAULT_SHIELD_REGEN_DELAY == 5000
RESPAWN_DELAY == 5000
SHIP_HITBOX_RADIUS == 2
NoTarget == 0 - 1     \* target_player_id: None

create_default_combat_stats ==
    [max_hp |-> DEFAULT_MAX_HP, hp |-> DEFAULT_MAX_HP,
     max_shield |-> DEFAULT_MAX_SHIELD, shield |-> DEFAULT_MAX_SHIELD,
     shield_regen_rate |-> DEFAULT_SHIELD_REGEN_RATE,
     shield_regen_delay |-> DEFAULT_SHIELD_REGEN_DELAY,
     last_damage_time |-> 0]

\* The variant of apply_damage that takes what the shield left from the hit
\* points without looking at how many there are.
apply_damage_unclamped(stats, raw_damage, server_time) ==
    LET shield_damage == Min(stats.shield, raw_damage)
        remaining == raw_damage - shield_damage
    IN  [stats EXCEPT !.last_damage_time = server_time,
                      !.shield = @ - shield_damage,
                      !.hp = @ - remaining]

\* The stats as apply_damage leaves them: the shield absorbs first.
apply_damage(stats, raw_damage, server_time) ==
    LET shield_damage == Min(stats.shield, raw_damage)
        remaining == raw_damage - shield_damage
        hp_damage == Min(stats.hp, remaining)
    IN  [stats EXCEPT !.last_damage_time = server_time,
                      !.shield = @ - shield_damage,
                      !.hp = @ - hp_damage]

is_dead(stats) == stats.hp <= 0

\* The variant of tick_shield_regen that does not wait for the delay.
tick_shield_regen_at_once(stats, current_time) ==
    IF stats.shield >= stats.max_shield THEN stats
    ELSE IF stats.hp <= 0 THEN stats
    ELSE [stats EXCEPT !.shield = Min(stats.max_shield,
                                      @ + stats.shield_regen_rate)]

tick_shield_regen(stats, current_time) ==
    IF stats.shield >= stats.max_shield THEN stats
    ELSE IF stats.hp <= 0 THEN stats
    ELSE IF current_time - stats.last_damage_time < stats.shield_regen_delay
    THEN stats
    ELSE [stats EXCEPT !.shield = Min(stats.max_shield,
                                      @ + stats.shield_regen_rate)]

reset_combat_stats(stats) ==
    [stats EXCEPT !.hp = stats.max_hp, !.shield = stats.max_shield,
                  !.last_damage_time = 0]

\* ----------------------------------------------------------------- weapons

WeaponTypes == {"Laser", "Missile", "Railgun"}

\* WEAPON_CONFIGS: cooldown in milliseconds, projectile_speed in units per
\* second.
get_weapon_config(weapon_type) ==
    CASE weapon_type = "Laser" ->
           [damage |-> 8, range |-> 150, cooldown |-> 500,
            projectile_speed |-> 800, splash |-> 0, piercing |-> FALSE]
      [] weapon_type = "Missile" ->
           [damage |-> 25, range |-> 300, cooldown |-> 2000,
            projectile_speed |-> 400, splash |-> 30, piercing |-> FALSE]
      [] weapon_type = "Railgun" ->
           [damage |-> 40, range |-> 400, cooldown |-> 4000,
            projectile_speed |-> 1200, splash |-> 0, piercing |-> TRUE]

Abs(a) == IF a < 0 THEN 0 - a ELSE a
Sign(a) == IF a < 0 THEN 0 - 1 ELSE IF a > 0 THEN 1 ELSE 0

\* create_projectile for the aims of the runs, which lie on the horizontal
\* line through the owner, where the unit vector of the aim is (1, 0) or
\* (-1, 0); an aim on top of the owner takes the owner's yaw, which is 0 for a
\* player that has not turned.
create_projectile(id, owner_id, owner_x, owner_y, weapon_type, aim_x) ==
    LET dir_x == IF aim_x = owner_x THEN 1 ELSE Sign(aim_x - owner_x)
    IN  [id |-> id, owner_id |-> owner_id, weapon_type |-> weapon_type,
         x |-> owner_x, y |-> owner_y,
         vx |-> dir_x * get_weapon_config(weapon_type).projectile_speed,
         vy |-> 0,
         max_range |-> get_weapon_config(weapon_type).range,
         distance_traveled |-> 0,
         hit_ids |-> {}]

dist_sq(ax, ay, bx, by) == (ax - bx) * (ax - bx) + (ay - by) * (ay - by)

\* (config.damage * (1 - d / splash_r)).floor().max(1) for a target on the
\* line of the projectile's flight, where d is a whole number of units.
splash_damage(config, d) ==
    LET splash_r == config.splash + SHIP_HITBOX_RADIUS
        floored == (config.damage * (splash_r - d)) \div splash_r
    IN  IF floored < 1 THEN 1 ELSE floored

\* The ids of a map's keys in increasing order, the order in which the runs
\* walk a list collected from a HashMap.
RECURSIVE InOrder(_)
InOrder(S) ==
    IF S = {} THEN << >>
    ELSE LET least == CHOOSE k \in S : \A j \in S : k <= j
         IN  <<least>> \o InOrder(S \ {least})

\* The largest d with d * d <= d2: d2.sqrt() for the distances of the runs.
Sqrt(d2) == CHOOSE d \in 0..d2 : d * d <= d2 /\ (d + 1) * (d + 1) > d2

\* One pass of the loop of process_projectiles over the targets, for one
\* projectile and one target.  acc holds the projectile, the stats of the
\* players, the hits of the tick and whether the projectile is consumed.
hit_target(acc, target, server_time) ==
    LET proj == acc.proj
        config == get_weapon_config(proj.weapon_type)
        d2 == dist_sq(proj.x, proj.y, target.x, target.y)
        splash_r == config.splash + SHIP_HITBOX_RADIUS
        known == target.id \in DOMAIN acc.stats
        hit(damage) ==
            [acc EXCEPT
               !.proj.hit_ids = @ \cup {target.id},
               !.stats = IF known
                         THEN [@ EXCEPT ![target.id] =
                                  apply_damage(@, damage, server_time)]
                         ELSE @,
               !.hits = IF known
                        THEN Append(@, [projectile |-> proj.id,
                                        owner_id |-> proj.owner_id,
                                        target |-> <<"player", target.id>>,
                                        damage |-> damage,
                                        killed |-> is_dead(apply_damage(
                                            acc.stats[target.id], damage,
                                            server_time))])
                        ELSE @]
    IN  IF target.id = proj.owner_id THEN acc
        ELSE IF target.hp <= 0 THEN acc
        ELSE IF target.id \in proj.hit_ids THEN acc
        ELSE IF d2 <= SHIP_HITBOX_RADIUS * SHIP_HITBOX_RADIUS
        THEN [hit(config.damage) EXCEPT !.consumed = ~config.piercing]
        ELSE IF config.splash > 0 /\ d2 <= splash_r * splash_r
        THEN hit(splash_damage(config, Sqrt(d2)))
        ELSE acc

RECURSIVE hit_targets(_, _, _, _)
hit_targets(acc, targets, i, server_time) ==
    IF i > Len(targets) \/ acc.consumed THEN acc
    ELSE hit_targets(hit_target(acc, targets[i], server_time),
                     targets, i + 1, server_time)

\* The projectile after the move of one tick.
move_projectile(proj) ==
    [proj EXCEPT !.x = @ + (proj.vx * TICK_INTERVAL_MS) \div 1000,
                 !.y = @ + (proj.vy * TICK_INTERVAL_MS) \div 1000,
                 !.distance_traveled =
                     @ + Abs((proj.vx * TICK_INTERVAL_MS) \div 1000)]

\* process_projectiles: acc holds the surviving projectiles, the stats and the
\* hits so far.
RECURSIVE process_projectiles(_, _, _, _, _)
process_projectiles(acc, projectiles, i, targets, server_time) ==
    IF i > Len(projectiles) THEN acc
    ELSE
      LET moved == move_projectile(projectiles[i])
      IN  IF moved.distance_traveled >= moved.max_range
          THEN process_projectiles(acc, projectiles, i + 1, targets, server_time)
          ELSE process_projectiles(
                 The({[surviving |-> IF r.consumed THEN acc.surviving
                                     ELSE Append(acc.surviving, r.proj),
                       stats |-> r.stats, hits |-> r.hits] :
                      r \in {hit_targets([proj |-> moved, stats |-> acc.stats,
                                          hits |-> acc.hits, consumed |-> FALSE],
                                         targets, 1, server_time)}}),
                 projectiles, i + 1, targets, server_time)

\* -------------------------------------------------------------------- NPCs

\* get_npc_template, for the three types of the runs: attack_cooldown in
\* milliseconds, flee_threshold in hundredths.
get_npc_template(npc_type) ==
    CASE npc_type = "Pirate" ->
           [max_hp |-> 80, damage |-> 6, attack_range |-> 150,
            attack_cooldown |-> 1000, aggro_range |-> 200,
            flee_threshold |-> 20]
      [] npc_type = "BountyHunter" ->
           [max_hp |-> 120, damage |-> 12, attack_range |-> 180,
            attack_cooldown |-> 800, aggro_range |-> 250,
            flee_threshold |-> 15]
      [] OTHER ->
           [max_hp |-> 40, damage |-> 0, attack_range |-> 0,
            attack_cooldown |-> 999000, aggro_range |-> 50,
            flee_threshold |-> 50]

\* NPC::take_damage
take_damage(npc, amount) ==
    IF ~npc.alive THEN npc
    ELSE IF npc.hp - amount <= 0
    THEN [npc EXCEPT !.hp = 0, !.alive = FALSE]
    ELSE [npc EXCEPT !.hp = @ - amount]

NPC_new(npc_type, zone_id, x, y) ==
    [npc_type |-> npc_type, zone_id |-> zone_id, x |-> x, y |-> y,
     hp |-> get_npc_template(npc_type).max_hp, alive |-> TRUE,
     behavior_state |-> "Idle", target_player_id |-> NoTarget,
     idle_timer |-> 0, cooldown_timer |-> 0]

\* get_zone_npc_configs: respawn_time_ms in milliseconds
get_zone_npc_configs(zone_id) ==
    CASE zone_id = "uurf-orbit" ->
           <<[npc_type |-> "Pirate", max_count |-> 3,
              respawn_time_ms |-> 30000],
             [npc_type |-> "Trader", max_count |-> 2,
              respawn_time_ms |-> 45000]>>
      [] zone_id = "asteroid-belt-alpha" ->
           <<[npc_type |-> "Pirate", max_count |-> 5,
              respawn_time_ms |-> 25000],
             [npc_type |-> "MiningDrone", max_count |-> 3,
              respawn_time_ms |-> 40000]>>
      [] zone_id = "uurf-hub" ->
           <<[npc_type |-> "StationGuard", max_count |-> 2,
              respawn_time_ms |-> 20000]>>
      [] zone_id = "uurf-surface" ->
           <<[npc_type |-> "Trader", max_count |-> 1,
              respawn_time_ms |-> 60000],
             [npc_type |-> "MiningDrone", max_count |-> 1,
              respawn_time_ms |-> 50000]>>
      [] OTHER -> << >>

\* configs.iter().find(|c| c.npc_type == npc_type): the first configuration of
\* the type, as a sequence of at most one configuration.
find_config(zone_id, npc_type) ==
    LET configs == get_zone_npc_configs(zone_id)
        found == {i \in DOMAIN configs : configs[i].npc_type = npc_type}
    IN  IF found = {} THEN << >>
        ELSE <<configs[CHOOSE i \in found : \A j \in found : i <= j]>>

\* NPC::roll_loot, for the items the runs hold: the draw decides whether every
\* entry of the loot table drops or none does.
roll_loot(npc_type, draw) ==
    IF draw = "centre" THEN << >>
    ELSE IF npc_type = "Pirate"
    THEN <<[item_type |-> "iron", quantity |-> 5],
           [item_type |-> "iron_plate", quantity |-> 1]>>
    ELSE <<[item_type |-> "iron", quantity |-> 10]>>

\* Option<NPCDeathEvent>: None
NoDeath == [is_some |-> FALSE]

\* handle_npc_death on the manager mgr = [npcs, respawn_queue]: the manager as
\* it is left, and the death event returned.
handle_npc_death(mgr, npc_id, killer_id, draw) ==
    LET none == [npcs |-> mgr.npcs, respawn_queue |-> mgr.respawn_queue,
                 event |-> NoDeath]
    IN  IF npc_id \notin DOMAIN mgr.npcs THEN none
        ELSE IF ~mgr.npcs[npc_id].alive THEN none
        ELSE LET npc == mgr.npcs[npc_id]
                 config == find_config(npc.zone_id, npc.npc_type)
             IN  [npcs |-> Remove(mgr.npcs, npc_id),
                  respawn_queue |->
                      IF config = << >> THEN mgr.respawn_queue
                      ELSE Append(mgr.respawn_queue,
                                  [npc_type |-> npc.npc_type,
                                   zone_id |-> npc.zone_id,
                                   timer_ms |-> config[1].respawn_time_ms]),
                  event |-> [is_some |-> TRUE, npc_id |-> npc_id,
                             zone_id |-> npc.zone_id,
                             loot_items |-> roll_loot(npc.npc_type, draw),
                             killer_id |-> killer_id]]

\* damage_npc on the manager mgr = [npcs, respawn_queue]: the manager as it is
\* left, and the death event returned.
damage_npc(mgr, npc_id, damage, attacker_id, draw) ==
    LET none == [npcs |-> mgr.npcs, respawn_queue |-> mgr.respawn_queue,
                 event |-> NoDeath]
    IN  IF npc_id \notin DOMAIN mgr.npcs THEN none
        ELSE IF ~mgr.npcs[npc_id].alive THEN none
        ELSE LET hurt == take_damage(mgr.npcs[npc_id], damage)
                 died == ~hurt.alive
             IN  IF died
                 THEN handle_npc_death([mgr EXCEPT !.npcs[npc_id] = hurt],
                                       npc_id, attacker_id, draw)
                 ELSE [none EXCEPT !.npcs[npc_id] =
                          IF hurt.target_player_id = NoTarget
                          THEN [hurt EXCEPT !.target_player_id = attacker_id]
                          ELSE hurt]

\* alive_count_by_type
alive_count_by_type(all, zone_id, npc_type) ==
    Cardinality({k \in DOMAIN all : /\ all[k].zone_id = zone_id
                                    /\ all[k].alive
                                    /\ all[k].npc_type = npc_type})

\* spawn_npc and the broadcast of its NPC_SPAWN event
spawn_npc(self, npc_type, zone_id, draw) ==
    LET at == random_spawn_position(zone_id, draw)
    IN  broadcast_to_zone(
          [self EXCEPT !.npcs = Insert(@, self.next_npc_id,
                                       NPC_new(npc_type, zone_id, at[1], at[2])),
                       !.next_npc_id = @ + 1],
          zone_id, "NPC_SPAWN", self.next_npc_id)

\* The loop of process_spawn_tick over the respawn queue it took: the entries
\* still pending gather in self.respawn_queue.
RECURSIVE respawn_entries(_, _, _, _, _)
respawn_entries(self, old_queue, i, dt_ms, draw) ==
    IF i > Len(old_queue) THEN self
    ELSE
      LET entry == [old_queue[i] EXCEPT !.timer_ms = @ - dt_ms]
          config == find_config(entry.zone_id, entry.npc_type)
          max == IF config = << >> THEN 0 ELSE config[1].max_count
      IN  respawn_entries(
            IF entry.timer_ms > 0
            THEN [self EXCEPT !.respawn_queue = Append(@, entry)]
            ELSE IF /\ entry.zone_id \in DOMAIN self.zones
                    /\ alive_count_by_type(self.npcs, entry.zone_id,
                                           entry.npc_type) < max
            THEN spawn_npc(self, entry.npc_type, entry.zone_id, draw)
            ELSE self,
            old_queue, i + 1, dt_ms, draw)

\* process_spawn_tick with the broadcasts of its events; every zone has had
\* its initial spawn.
process_spawn_tick(self, dt_ms, draw) ==
    IF self.respawn_queue = << >> THEN self
    ELSE respawn_entries([self EXCEPT !.respawn_queue = << >>],
                         self.respawn_queue, 1, dt_ms, draw)

\* ---------------------------------------------------------------- crafting
\* Times are in milliseconds; the code holds them in seconds as f64.

MAX_CONCURRENT_JOBS == 3

NoRecipe == [id |-> "None"]

\* get_recipe, for the recipe of the runs: 10 iron give 1 iron_plate in 3 s.
get_recipe(recipe_id) ==
    IF recipe_id = "iron_plate"
    THEN [id |-> "iron_plate",
          inputs |-> <<[item |-> "iron", amount |-> 10]>>,
          output |-> [item |-> "iron_plate", amount |-> 1],
          craft_time |-> 3000]
    ELSE NoRecipe

\* CraftingQueue::get_active_jobs, as the places of the jobs in the queue
get_active_jobs(queue) ==
    {i \in DOMAIN queue : queue[i].status \in {"Pending", "Crafting"}}

active_count(queue) == Cardinality(get_active_jobs(queue))

has_room_always(queue) == TRUE

has_room(queue) == active_count(queue) < MAX_CONCURRENT_JOBS

\* CraftingQueue::prune_finished: the jobs that stay
prune_finished(queue) ==
    SelectSeq(queue, LAMBDA j : j.status \notin {"Complete", "Failed"})

has_inputs(inventory, inputs) ==
    \A i \in DOMAIN inputs :
        Inventory_has(inventory, inputs[i].item, inputs[i].amount)

RECURSIVE consume_inputs(_, _, _)
consume_inputs(inventory, inputs, i) ==
    IF i > Len(inputs) THEN inventory
    ELSE consume_inputs(
           Inventory_remove(inventory, inputs[i].item, inputs[i].amount),
           inputs, i + 1)

\* try_start_craft: the inventory and the queue as they are left, and the
\* TryCraftResult.  The job ids, which nothing reads, are left out.
try_start_craft(inventory, queue, recipe_id, current_time) ==
    LET recipe == get_recipe(recipe_id)
        refused(reason) == [inventory |-> inventory, queue |-> queue,
                            success |-> FALSE, reason |-> reason]
    IN  IF recipe = NoRecipe THEN refused("Unknown recipe")
        ELSE IF ~has_room(queue) THEN refused("Crafting queue full")
        ELSE IF ~has_inputs(inventory, recipe.inputs)
        THEN refused("Insufficient")
        ELSE [inventory |-> consume_inputs(inventory, recipe.inputs, 1),
              queue |-> Append(queue,
                          [recipe_id |-> recipe_id,
                           start_time |-> current_time,
                           end_time |-> current_time + recipe.craft_time,
                           status |-> "Crafting"]),
              success |-> TRUE, reason |-> "None"]

\* process_crafting_tick, from the job in place i on: the queue and the
\* inventory as they are left, and the CompletedCrafts.
RECURSIVE process_crafting_tick(_, _, _)
process_crafting_tick(r, current_time, i) ==
    IF i > Len(r.queue) THEN r
    ELSE IF ~(/\ r.queue[i].status \in {"Pending", "Crafting"}
              /\ r.queue[i].end_time <= current_time)
    THEN process_crafting_tick(r, current_time, i + 1)
    ELSE
      LET recipe == get_recipe(r.queue[i].recipe_id)
          added == /\ recipe # NoRecipe
                   /\ Inventory_add_ok(r.inventory, recipe.output.item,
                                       recipe.output.amount)
      IN  process_crafting_tick(
            [queue |-> [r.queue EXCEPT ![i].status =
                           IF added THEN "Complete" ELSE "Failed"],
             inventory |-> IF added
                           THEN Inventory_add(r.inventory, recipe.output.item,
                                              recipe.output.amount)
                           ELSE r.inventory,
             completed |-> Append(r.completed,
                             [recipe_id |-> r.queue[i].recipe_id,
                              output_item |-> IF recipe = NoRecipe THEN ""
                                              ELSE recipe.output.item,
                              output_amount |-> IF recipe = NoRecipe THEN 0
                                                ELSE recipe.output.amount,
                              added |-> added])],
            current_time, i + 1)

\* handle_craft_start; the clock is read as the request is handled.
handle_craft_start(self, conn_id, recipe_id, server_time) ==
    IF conn_id \notin DOMAIN self.conn_to_player THEN self
    ELSE
      LET player_id == self.conn_to_player[conn_id]
      IN  IF player_id \notin DOMAIN self.player_to_zone THEN self
          ELSE IF ~has_player(self, player_id) THEN self
          ELSE IF player_id \notin DOMAIN self.crafting_queues THEN self
          ELSE The({send_to_conn(
                      [self EXCEPT
                         !.zones[self.player_to_zone[player_id]][player_id]
                             .inventory = r.inventory,
                         !.crafting_queues[player_id] = r.queue],
                      conn_id, "CRAFT_STATUS",
                      IF r.success THEN "started" ELSE r.reason) :
                    r \in {try_start_craft(
                             get_player(self, player_id).inventory,
                             self.crafting_queues[player_id], recipe_id,
                             server_time)}})

\* The CraftActions of one CompletedCraft list, for the player pid
craft_actions_of(completed, pid) ==
    [i \in DOMAIN completed |->
        [player_id |-> pid, recipe_id |-> completed[i].recipe_id,
         output_item |-> completed[i].output_item,
         output_amount |-> completed[i].output_amount,
         added |-> completed[i].added]]

\* The first loop of the crafting pass of game_tick: the queues of the
\* players the zone is recorded for, in the order the HashMap of the queues
\* yields them.
RECURSIVE craft_players(_, _, _, _, _)
craft_players(r, zone_id, pids, i, server_time) ==
    IF i > Len(pids) THEN r
    ELSE IF pids[i] \notin DOMAIN r.self.zones[zone_id]
    THEN craft_players(r, zone_id, pids, i + 1, server_time)
    ELSE The({craft_players(
                [self |-> [r.self EXCEPT
                             !.zones[zone_id][pids[i]].inventory = t.inventory,
                             !.crafting_queues[pids[i]] =
                                 prune_finished(t.queue)],
                 craft_actions |->
                     r.craft_actions \o craft_actions_of(t.completed, pids[i])],
                zone_id, pids, i + 1, server_time) :
              t \in {process_crafting_tick(
                       [queue |-> r.self.crafting_queues[pids[i]],
                        inventory |-> r.self.zones[zone_id][pids[i]].inventory,
                        completed |-> << >>],
                       server_time, 1)}})

\* The second loop: the frames, the XP and the quests of the CraftActions.
RECURSIVE craft_results(_, _, _)
craft_results(self, craft_actions, i) ==
    IF i > Len(craft_actions) THEN self
    ELSE
      LET action == craft_actions[i]
          conn_id == IF action.player_id \in DOMAIN self.player_to_conn
                     THEN self.player_to_conn[action.player_id] ELSE 0
      IN  craft_results(
            IF action.added
            THEN update_quest_objectives(
                   award_xp(send_to_conn(self, conn_id, "CRAFT_COMPLETE",
                                         action.recipe_id),
                            action.player_id, XP_REWARD_CRAFTING),
                   action.player_id, "Craft", action.output_item,
                   action.output_amount)
            ELSE send_to_conn(self, conn_id, "CRAFT_FAILED", action.recipe_id),
            craft_actions, i + 1)

\* The crafting pass of game_tick for one zone.
crafting_tick(self, zone_id, server_time) ==
    The({craft_results(r.self, r.craft_actions, 1) :
         r \in {craft_players(
                  [self |-> self, craft_actions |-> << >>], zone_id,
                  InOrder({p \in DOMAIN self.crafting_queues :
                             /\ p \in DOMAIN self.player_to_zone
                             /\ self.player_to_zone[p] = zone_id}),
                  1, server_time)}})

\* --------------------------------------------------------------- equipment

NoItem == "None"     \* Option<EquipmentItem>: None

\* EquipmentSlotType::ALL, by the names of as_str
EquipmentSlotType_ALL ==
    <<"weapon1", "weapon2", "shield", "engine", "mining_laser", "armor",
      "utility">>

NoEquipment == [item_type |-> NoItem]

\* get_equipment_database().get(item_type), for the items of the runs; the
\* stats are the flat armour bonus.
get_equipment_database(item_type) ==
    CASE item_type = "iron_plate" ->
           [item_type |-> item_type, slot_type |-> "armor", armor_bonus |-> 10]
      [] item_type = "carbon_fiber" ->
           [item_type |-> item_type, slot_type |-> "armor", armor_bonus |-> 15]
      [] OTHER -> NoEquipment

\* PlayerEquipment::new: every slot is there and empty
PlayerEquipment_new ==
    [slot \in {EquipmentSlotType_ALL[i] : i \in DOMAIN EquipmentSlotType_ALL}
        |-> NoItem]

\* PlayerEquipment::equip: the slots as they are left and the EquipResult
equip(slots, item_type) ==
    LET def == get_equipment_database(item_type)
    IN  IF def = NoEquipment
        THEN [slots |-> slots, success |-> FALSE, old_item |-> NoItem,
              error |-> "is not equippable"]
        ELSE [slots |-> [slots EXCEPT ![def.slot_type] = item_type],
              success |-> TRUE, old_item |-> slots[def.slot_type],
              error |-> "None"]

\* PlayerEquipment::unequip: the slots as they are left and the UnequipResult
unequip(slots, slot_type) ==
    IF slot_type \notin DOMAIN slots
    THEN [slots |-> slots, removed_item |-> NoItem,
          error |-> "Invalid slot type"]
    ELSE IF slots[slot_type] # NoItem
    THEN [slots |-> [slots EXCEPT ![slot_type] = NoItem],
          removed_item |-> slots[slot_type], error |-> "None"]
    ELSE [slots |-> slots, removed_item |-> NoItem,
          error |-> "Slot is already empty"]

\* PlayerEquipment::get_aggregate_stats: the armour bonus summed over the
\* occupied slots
get_aggregate_stats(slots) ==
    [armor_bonus |->
        SumOver([slot \in DOMAIN slots |->
                    IF slots[slot] = NoItem THEN 0
                    ELSE get_equipment_database(slots[slot]).armor_bonus],
                DOMAIN slots)]

\* The occupied slots, as save_player_to_db takes them from to_payload
equipment_slots(slots) ==
    [slot \in {k \in DOMAIN slots : slots[k] # NoItem} |-> slots[slot]]

\* handle_hello equipping the saved items, one after the other
RECURSIVE restore_equipment(_, _)
restore_equipment(slots, saved) ==
    IF DOMAIN saved = {} THEN slots
    ELSE LET k == CHOOSE slot \in DOMAIN saved : TRUE
         IN  restore_equipment(equip(slots, saved[k]).slots, Remove(saved, k))

\* send_equipment_update and send_ship_stats
send_equipment_and_stats(self, player_id, conn_id) ==
    send_to_conn(
      IF player_id \in DOMAIN self.player_equipment
      THEN send_to_conn(self, conn_id, "EQUIPMENT_UPDATE", "slots")
      ELSE self,
      conn_id, "SHIP_STATS_UPDATE", player_id)

handle_equip_item(self, conn_id, item_type) ==
    IF conn_id \notin DOMAIN self.conn_to_player THEN self
    ELSE
      LET player_id == self.conn_to_player[conn_id]
      IN  IF ~has_player(self, player_id) THEN self
          ELSE IF ~Inventory_has(get_player(self, player_id).inventory,
                                 item_type, 1)
          THEN send_to_conn(self, conn_id, "EQUIPMENT_UPDATE",
                            "Item not in inventory")
          ELSE IF player_id \notin DOMAIN self.player_equipment THEN self
          ELSE
            LET r == equip(self.player_equipment[player_id], item_type)
                s1 == [self EXCEPT !.player_equipment[player_id] = r.slots]
                removed == Inventory_remove(
                             get_player(s1, player_id).inventory, item_type, 1)
                s2 == IF ~r.success THEN s1
                      ELSE set_inventory(s1, player_id,
                             IF r.old_item # NoItem
                             THEN Inventory_add(removed, r.old_item, 1)
                             ELSE removed)
                s3 == send_to_conn(s2, conn_id, "EQUIPMENT_UPDATE", r.error)
            IN  IF r.success
                THEN send_equipment_and_stats(s3, player_id, conn_id)
                ELSE s3

\* slot is the index the client sends into EquipmentSlotType::ALL, from 0.
handle_unequip_item(self, conn_id, slot) ==
    IF conn_id \notin DOMAIN self.conn_to_player THEN self
    ELSE
      LET player_id == self.conn_to_player[conn_id]
      IN  IF player_id \notin DOMAIN self.player_to_zone THEN self
          ELSE IF slot + 1 \notin DOMAIN EquipmentSlotType_ALL
          THEN send_to_conn(self, conn_id, "EQUIPMENT_UPDATE",
                            "Invalid equipment slot")
          ELSE IF player_id \notin DOMAIN self.player_equipment THEN self
          ELSE
            LET r == unequip(self.player_equipment[player_id],
                             EquipmentSlotType_ALL[slot + 1])
                s1 == [self EXCEPT !.player_equipment[player_id] = r.slots]
                s2 == IF r.removed_item # NoItem /\ has_player(s1, player_id)
                      THEN set_inventory(s1, player_id,
                             Inventory_add(get_player(s1, player_id).inventory,
                                           r.removed_item, 1))
                      ELSE s1
                s3 == send_to_conn(s2, conn_id, "EQUIPMENT_UPDATE", r.error)
            IN  IF r.removed_item # NoItem
                THEN send_equipment_and_stats(s3, player_id, conn_id)
                ELSE s3

\* ------------------------------------------------------------- persistence

NoAccount == 0 - 1     \* account_id: NULL

\* accounts: the ids of the accounts table; players: the players table with
\* each player's inventory rows, by player id.
Database_new == [accounts |-> {}, players |-> EmptyMap]

db_next_player_id(d) ==
    IF DOMAIN d.players = {} THEN 1
    ELSE (CHOOSE m \in DOMAIN d.players : \A k \in DOMAIN d.players : k <= m) + 1

has_saved_player(d, account_id) ==
    \E k \in DOMAIN d.players : d.players[k].account_id = account_id

\* the row of SELECT .. FROM players WHERE account_id = ?1, with its id
load_player(d, account_id) ==
    LET k == CHOOSE k \in DOMAIN d.players : d.players[k].account_id = account_id
    IN  [player_id |-> k, zone_id |-> d.players[k].zone_id,
         x |-> d.players[k].x, y |-> d.players[k].y,
         omen_balance |-> d.players[k].omen_balance,
         hp |-> d.players[k].hp, shield |-> d.players[k].shield,
         inventory_items |-> d.players[k].inventory_items,
         equipment_slots |-> d.players[k].equipment_slots,
         quest_progress |-> d.players[k].quest_progress,
         level |-> d.players[k].level, xp |-> d.players[k].xp]

\* INSERT .. ON CONFLICT(id) DO UPDATE, which leaves account_id as it is
save_player(d, data) ==
    [d EXCEPT !.players =
        Insert(@, data.player_id,
               [account_id |-> IF data.player_id \in DOMAIN @
                               THEN @[data.player_id].account_id
                               ELSE data.account_id,
                zone_id |-> data.zone_id, x |-> data.x, y |-> data.y,
                omen_balance |-> data.omen_balance,
                hp |-> data.hp, shield |-> data.shield,
                inventory_items |-> data.inventory_items,
                equipment_slots |-> data.equipment_slots,
                quest_progress |-> data.quest_progress,
                level |-> data.level, xp |-> data.xp])]

save_player_to_db(self, player_id) ==
    IF ~has_player(self, player_id) THEN self
    ELSE
      LET player == get_player(self, player_id)
          data == [account_id |-> IF player_id \in DOMAIN self.player_account_ids
                                  THEN self.player_account_ids[player_id]
                                  ELSE NoAccount,
                   player_id |-> player_id,
                   zone_id |-> self.player_to_zone[player_id],
                   x |-> player.x, y |-> player.y,
                   omen_balance |-> player.inventory.omen_balance,
                   hp |-> IF player_id \in DOMAIN self.player_combat_stats
                          THEN self.player_combat_stats[player_id].hp
                          ELSE DEFAULT_MAX_HP,
                   shield |-> IF player_id \in DOMAIN self.player_combat_stats
                              THEN self.player_combat_stats[player_id].shield
                              ELSE DEFAULT_MAX_SHIELD,
                   inventory_items |-> player.inventory.items,
                   equipment_slots |->
                       IF player_id \in DOMAIN self.player_equipment
                       THEN equipment_slots(self.player_equipment[player_id])
                       ELSE EmptyMap,
                   quest_progress |->
                       IF player_id \in DOMAIN self.quest_trackers
                       THEN export_active_quests(
                                self.quest_trackers[player_id])
                       ELSE EmptyMap,
                   level |-> IF player_id \in DOMAIN self.player_progression
                             THEN self.player_progression[player_id].level
                             ELSE 1,
                   xp |-> IF player_id \in DOMAIN self.player_progression
                          THEN self.player_progression[player_id].xp
                          ELSE 0]
      IN  [self EXCEPT !.db = save_player(@, data)]

RECURSIVE save_players(_, _)
save_players(self, player_ids) ==
    IF player_ids = {} THEN self
    ELSE LET pid == CHOOSE k \in player_ids : TRUE
         IN  save_players(save_player_to_db(self, pid), player_ids \ {pid})

save_all_players(self) ==
    save_players(self, {self.conn_to_player[c] : c \in DOMAIN self.conn_to_player})

\* ---------------------------------------------------------- resource nodes
\* Amounts are whole numbers in every path of the code the runs take.

BASE_MINING_RATE == 10
MINING_RANGE == 100
NODE_RESPAWN_TIME_MS == 30000
NODE_BASE_AMOUNT == 100

\* ResourceNode::new; NODE_QUALITY_MULTIPLIER is 0.5.
ResourceNode_new(resource_type, x, y, quality) ==
    LET q == IF quality < 1 THEN 1 ELSE IF quality > 5 THEN 5 ELSE quality
        total_amount == NODE_BASE_AMOUNT + ((q - 1) * NODE_BASE_AMOUNT) \div 2
    IN  [resource_type |-> resource_type, x |-> x, y |-> y,
         total_amount |-> total_amount, current_amount |-> total_amount,
         quality |-> q, depleted_at |-> NoTime]

is_available(node) == node.current_amount > 0

\* The variant of extract that does not note when the node ran empty.
extract_unnoted(node, amount, time) ==
    IF ~is_available(node) THEN [node |-> node, actual |-> 0]
    ELSE [node |-> [node EXCEPT !.current_amount = @ - Min(amount, @)],
          actual |-> Min(amount, node.current_amount)]

\* ResourceNode::extract at time time: the node as it is left and the amount
\* extracted.
extract(node, amount, time) ==
    IF ~is_available(node) THEN [node |-> node, actual |-> 0]
    ELSE LET actual == Min(amount, node.current_amount)
         IN  [node |-> IF node.current_amount - actual <= 0
                       THEN [node EXCEPT !.current_amount = 0,
                                         !.depleted_at = time]
                       ELSE [node EXCEPT !.current_amount = @ - actual],
              actual |-> actual]

\* ResourceNode::tick_respawn at time time.
tick_respawn(node, time) ==
    IF node.depleted_at # NoTime
       /\ time - node.depleted_at >= NODE_RESPAWN_TIME_MS
    THEN [node EXCEPT !.current_amount = node.total_amount,
                      !.depleted_at = NoTime]
    ELSE node

\* Zone::tick_respawns
tick_respawns(self, zone_id, time) ==
    [self EXCEPT !.resource_nodes[zone_id] =
        [k \in DOMAIN @ |-> tick_respawn(@[k], time)]]

\* The variant of add_resource that does not cut the amount to the room left.
add_resource_uncut(player, resource_type, amount) ==
    IF amount <= 0 THEN player
    ELSE [player EXCEPT !.inventory = Inventory_add(@, resource_type, amount)]

\* Player::add_resource: the player as it is left.
add_resource(player, resource_type, amount) ==
    LET remaining == INVENTORY_CAPACITY - Inventory_total(player.inventory)
        actual == Min(amount, remaining)
    IN  IF actual <= 0 THEN player
        ELSE [player EXCEPT !.inventory =
                 Inventory_add(@, resource_type, actual)]

\* spawn_resource_nodes, for the one node of the runs: the default zone has
\* spawned an iron node of quality 2 at (50, 0), the first node of the server.
SpawnedNodes ==
    [z \in ZoneIds |->
        IF z = DEFAULT_ZONE_ID
        THEN [k \in {1} |-> ResourceNode_new("iron", 50, 0, 2)]
        ELSE EmptyMap]

\* ---------------------------------------------------------- combat handlers

zone_type(zone_id) ==
    CASE zone_id = "uurf-orbit" -> "space"
      [] zone_id = "uurf-hub" -> "station"
      [] zone_id = "uurf-surface" -> "planet"
      [] zone_id = "asteroid-belt-alpha" -> "space"

\* player_equipped_weapons, which handle_hello sets and nothing changes: slot
\* 0 and slot 1.
equipped_weapons == <<"Laser", "Missile">>

\* The combat state handle_hello gives a player.
insert_combat_state(self, player_id) ==
    [self EXCEPT
       !.player_combat_stats = Insert(@, player_id, create_default_combat_stats),
       !.player_weapon_cooldowns = Insert(@, player_id, EmptyMap),
       !.player_death_times = Insert(@, player_id, NoTime)]

\* The combat state handle_disconnect drops.
remove_combat_state(self, player_id) ==
    [self EXCEPT
       !.player_combat_stats = Remove(@, player_id),
       !.player_weapon_cooldowns = Remove(@, player_id),
       !.player_death_times = Remove(@, player_id)]

\* calculate_ship_stats, for the hit points and the shield: each grows by
\* LEVEL_SCALING (2%) of its base per level above 1, the armour bonus is
\* added to the hit points, and no item of the runs has a shield bonus.
calculate_ship_stats(level, equipment_mods) ==
    [max_hp |-> (DEFAULT_MAX_HP * (50 + (level - 1))) \div 50
                   + equipment_mods.armor_bonus,
     max_shield |-> (DEFAULT_MAX_SHIELD * (50 + (level - 1))) \div 50]

\* handle_hello restoring the saved hit points and shield, for the level and
\* the equipment it has restored.
restore_combat_stats(stats, data) ==
    LET ship == calculate_ship_stats(
                    data.level,
                    get_aggregate_stats(
                        restore_equipment(PlayerEquipment_new,
                                          data.equipment_slots)))
    IN  [stats EXCEPT !.max_hp = ship.max_hp,
                      !.hp = Min(data.hp, ship.max_hp),
                      !.max_shield = ship.max_shield,
                      !.shield = Min(data.shield, ship.max_shield)]

\* The variant of fire_weapon_error that never reports a cooldown.
fire_weapon_error_no_cooldown(player_hp, weapon_slot, type_of_zone, cooldowns, server_time) ==
    IF type_of_zone # "space" THEN "Combat not allowed in this zone"
    ELSE IF player_hp <= 0 THEN "Cannot fire while dead"
    ELSE IF weapon_slot >= Len(equipped_weapons) THEN "Invalid weapon slot"
    ELSE NoneVal

\* combat_manager::handle_fire_weapon: the error it returns, NoneVal when the
\* weapon fires.
fire_weapon_error(player_hp, weapon_slot, type_of_zone, cooldowns, server_time) ==
    IF type_of_zone # "space" THEN "Combat not allowed in this zone"
    ELSE IF player_hp <= 0 THEN "Cannot fire while dead"
    ELSE IF weapon_slot >= Len(equipped_weapons) THEN "Invalid weapon slot"
    ELSE IF server_time - (IF weapon_slot \in DOMAIN cooldowns
                           THEN cooldowns[weapon_slot] ELSE 0)
              < get_weapon_config(equipped_weapons[weapon_slot + 1]).cooldown
    THEN "Weapon on cooldown"
    ELSE NoneVal

\* GameServer::handle_fire_weapon at server time now.
handle_fire_weapon(self, conn_id, weapon_slot, target_x) ==
    IF conn_id \notin DOMAIN self.conn_to_player THEN self
    ELSE
      LET player_id == self.conn_to_player[conn_id]
      IN  IF ~has_player(self, player_id) THEN self
          ELSE IF player_id \notin DOMAIN self.player_weapon_cooldowns THEN self
          ELSE
            LET zone_id == self.player_to_zone[player_id]
                player == get_player(self, player_id)
                player_hp == IF player_id \in DOMAIN self.player_combat_stats
                             THEN self.player_combat_stats[player_id].hp ELSE 0
                error == fire_weapon_error(player_hp, weapon_slot,
                             zone_type(zone_id),
                             self.player_weapon_cooldowns[player_id], now)
            IN  IF error # NoneVal
                THEN [self EXCEPT !.replies = Append(@, error)]
                ELSE [self EXCEPT
                        !.player_weapon_cooldowns[player_id] =
                            Insert(@, weapon_slot, now),
                        !.zone_projectiles[zone_id] =
                            Append(@, create_projectile(self.next_projectile_id,
                                      player_id, player.x, player.y,
                                      equipped_weapons[weapon_slot + 1],
                                      target_x)),
                        !.next_projectile_id = @ + 1,
                        !.replies = Append(@, NoneVal)]

\* combat_manager::handle_respawn: whether the request is granted.
respawn_granted(stats, death_time, server_time) ==
    /\ is_dead(stats)
    /\ death_time # NoTime
    /\ server_time - death_time >= RESPAWN_DELAY

\* GameServer::handle_respawn_request at server time now; draw decides the
\* point random_spawn_position gives.
handle_respawn_request(self, conn_id, draw) ==
    IF conn_id \notin DOMAIN self.conn_to_player THEN self
    ELSE
      LET player_id == self.conn_to_player[conn_id]
      IN  IF player_id \notin DOMAIN self.player_to_zone THEN self
          ELSE IF self.player_to_zone[player_id] \notin DOMAIN self.zones THEN self
          ELSE IF player_id \notin DOMAIN self.player_combat_stats THEN self
          ELSE
            LET zone_id == self.player_to_zone[player_id]
                spawn == random_spawn_position(zone_id, draw)
                death_time == IF player_id \in DOMAIN self.player_death_times
                              THEN self.player_death_times[player_id]
                              ELSE NoTime
            IN  IF ~respawn_granted(self.player_combat_stats[player_id],
                                    death_time, now)
                THEN self
                ELSE
                  LET s1 == [self EXCEPT
                               !.player_combat_stats[player_id] =
                                   reset_combat_stats(@),
                               !.player_death_times =
                                   Insert(@, player_id, NoTime),
                               !.replies = Append(@, "RESPAWN")]
                  IN  IF player_id \in DOMAIN s1.zones[zone_id]
                      THEN [s1 EXCEPT !.zones[zone_id][player_id].x = spawn[1],
                                      !.zones[zone_id][player_id].y = spawn[2]]
                      ELSE s1

\* ---------------------------------------------------------- combat in a tick

\* find_closest_player: the player of players nearest to the NPC among those
\* less than max_range away, or NoTarget; of the players at the same distance
\* the one with the lowest id.
find_closest_player(self, npc, players, max_range) ==
    LET d2(p) == dist_sq(npc.x, npc.y, self.zones[npc.zone_id][p].x,
                         self.zones[npc.zone_id][p].y)
        near == {p \in players : d2(p) < max_range * max_range}
    IN  IF near = {} THEN NoTarget
        ELSE CHOOSE p \in near :
               \A q \in near : d2(p) < d2(q) \/ (d2(p) = d2(q) /\ p <= q)

IDLE_TIME_MS == 2000

\* process_pirate_ai, which is process_bounty_hunter_ai as well: the state,
\* the target and the idle timer of the NPC after the tick.  Every NPC has
\* patrol waypoints.  Movement of the NPCs is not part of the model: each
\* holds its position.
process_pirate_ai(self, npc, players) ==
    LET template == get_npc_template(npc.npc_type)
        low == npc.hp * 100 <= template.flee_threshold * template.max_hp
        state == IF low THEN "Flee" ELSE npc.behavior_state
        closest == find_closest_player(self, npc, players,
                                       template.aggro_range)
        chasing == [npc EXCEPT !.target_player_id = closest,
                               !.behavior_state = "Chase"]
        lost == [npc EXCEPT !.target_player_id = NoTarget,
                            !.behavior_state = "Patrol"]
        target == npc.target_player_id
        d2 == dist_sq(npc.x, npc.y, self.zones[npc.zone_id][target].x,
                      self.zones[npc.zone_id][target].y)
    IN  CASE state = "Idle" ->
               LET rested ==
                     IF npc.idle_timer + TICK_INTERVAL_MS > IDLE_TIME_MS
                     THEN [npc EXCEPT !.idle_timer = 0,
                                      !.behavior_state = "Patrol"]
                     ELSE [npc EXCEPT !.idle_timer = @ + TICK_INTERVAL_MS]
               IN  IF closest # NoTarget
                   THEN [rested EXCEPT !.target_player_id = closest,
                                       !.behavior_state = "Chase"]
                   ELSE rested
          [] state = "Patrol" ->
               IF closest # NoTarget THEN chasing ELSE npc
          [] state = "Chase" ->
               IF target \notin players THEN lost
               ELSE IF 4 * d2 > 9 * template.aggro_range * template.aggro_range
               THEN lost
               ELSE IF d2 <= template.attack_range * template.attack_range
               THEN [npc EXCEPT !.behavior_state = "Attack"]
               ELSE npc
          [] state = "Attack" ->
               IF target \notin players THEN lost
               ELSE IF d2 > template.attack_range * template.attack_range
               THEN [npc EXCEPT !.behavior_state = "Chase"]
               ELSE npc
          [] state = "Flee" ->
               IF npc.hp * 100 > 2 * template.flee_threshold * template.max_hp
               THEN lost
               ELSE [npc EXCEPT !.behavior_state = "Flee"]
          [] OTHER -> [npc EXCEPT !.behavior_state = "Idle"]

\* process_npc_ai for the NPCs of the runs: the attack cooldown runs down by
\* dt, and then the AI of the type runs; a mining drone that is mining stays
\* where it is.
process_npc_ai(self, npc) ==
    LET cooled == IF npc.cooldown_timer > 0
                  THEN [npc EXCEPT !.cooldown_timer =
                            IF @ - TICK_INTERVAL_MS < 0 THEN 0
                            ELSE @ - TICK_INTERVAL_MS]
                  ELSE npc
    IN  IF npc.npc_type \in {"Pirate", "BountyHunter"}
        THEN process_pirate_ai(self, cooled,
                               get_active_players(self, npc.zone_id))
        ELSE cooled

\* check_npc_attack: whether the NPC fires on this tick.
npc_attacks(npc) ==
    /\ npc.alive
    /\ npc.behavior_state = "Attack"
    /\ npc.cooldown_timer <= 0
    /\ get_npc_template(npc.npc_type).damage > 0

\* The attack of one NPC applied to its target, as the loop over npc_attacks
\* of game_tick does.
apply_npc_attack(self, npc, server_time) ==
    LET target == npc.target_player_id
        damage == get_npc_template(npc.npc_type).damage
    IN  IF target \notin DOMAIN self.player_combat_stats THEN self
        ELSE The({[self EXCEPT
                     !.player_combat_stats[target] = hurt,
                     !.player_death_times =
                         IF is_dead(hurt) THEN Insert(@, target, server_time)
                         ELSE @] :
                  hurt \in {apply_damage(self.player_combat_stats[target],
                                         damage, server_time)}})

\* The NPC AI tick of game_tick with the attacks it yields, NPC by NPC.
RECURSIVE process_ai_tick(_, _, _, _)
process_ai_tick(self, npc_ids, i, server_time) ==
    IF i > Len(npc_ids) THEN self
    ELSE IF ~self.npcs[npc_ids[i]].alive
    THEN process_ai_tick(self, npc_ids, i + 1, server_time)
    ELSE
      LET thought == process_npc_ai(self, self.npcs[npc_ids[i]])
          fires == npc_attacks(thought)
          acted == IF fires
                   THEN [thought EXCEPT !.cooldown_timer =
                            get_npc_template(thought.npc_type).attack_cooldown]
                   ELSE thought
          s1 == [self EXCEPT !.npcs[npc_ids[i]] = acted]
      IN  process_ai_tick(IF fires THEN apply_npc_attack(s1, acted, server_time)
                          ELSE s1,
                          npc_ids, i + 1, server_time)

\* CollisionTarget of each active player of the zone, in the order the zone
\* yields them, with the hit points the player has as the tick starts.
RECURSIVE collision_targets(_, _, _, _)
collision_targets(self, zone_id, player_ids, i) ==
    IF i > Len(player_ids) THEN << >>
    ELSE <<[id |-> player_ids[i],
            x |-> self.zones[zone_id][player_ids[i]].x,
            y |-> self.zones[zone_id][player_ids[i]].y,
            hp |-> IF player_ids[i] \in DOMAIN self.player_combat_stats
                   THEN self.player_combat_stats[player_ids[i]].hp ELSE 0]>>
         \o collision_targets(self, zone_id, player_ids, i + 1)

\* The death times game_tick stamps for the Death events of the hits.
RECURSIVE stamp_deaths(_, _, _, _)
stamp_deaths(death_times, hits, i, server_time) ==
    IF i > Len(hits) THEN death_times
    ELSE stamp_deaths(IF hits[i].killed
                      THEN Insert(death_times, hits[i].target[2], server_time)
                      ELSE death_times,
                      hits, i + 1, server_time)

\* The XP game_tick awards the killers for the Death events of the hits.
RECURSIVE reward_kills(_, _, _)
reward_kills(self, hits, i) ==
    IF i > Len(hits) THEN self
    ELSE reward_kills(IF hits[i].killed
                      THEN award_xp(self, hits[i].owner_id,
                                    XP_REWARD_COMBAT_KILL)
                      ELSE self,
                      hits, i + 1)

\* Shield regeneration of process_combat_tick for the active players.
regen_shields(stats, player_ids, server_time) ==
    [p \in DOMAIN stats |->
        IF p \in player_ids THEN tick_shield_regen(stats[p], server_time)
        ELSE stats[p]]

\* process_combat_tick and the loop of game_tick over its events.
combat_tick(self, zone_id, server_time) ==
    LET players == get_active_players(self, zone_id)
    IN  IF zone_type(zone_id) # "space"
        THEN [self EXCEPT !.player_combat_stats =
                              regen_shields(@, players, server_time)]
        ELSE The({reward_kills(
                    [self EXCEPT
                       !.zone_projectiles[zone_id] = r.surviving,
                       !.player_combat_stats =
                           regen_shields(r.stats, players, server_time),
                       !.player_death_times =
                           stamp_deaths(@, r.hits, Len(self.hits) + 1,
                                        server_time),
                       !.hits = r.hits],
                    r.hits, Len(self.hits) + 1) :
                  r \in {process_projectiles(
                           [surviving |-> << >>,
                            stats |-> self.player_combat_stats,
                            hits |-> self.hits],
                           self.zone_projectiles[zone_id], 1,
                           collision_targets(self, zone_id, InOrder(players), 1),
                           server_time)}})

\* The pass of game_tick over the zone's projectiles and its NPCs that are
\* alive, for one projectile: acc holds the NPC hits so far and whether the
\* projectile is consumed.
RECURSIVE npc_hits_of(_, _, _, _, _)
npc_hits_of(acc, proj, all, npc_ids, i) ==
    IF i > Len(npc_ids) \/ acc.consumed THEN acc
    ELSE
      LET config == get_weapon_config(proj.weapon_type)
          npc == all[npc_ids[i]]
          d2 == dist_sq(proj.x, proj.y, npc.x, npc.y)
          splash_r == config.splash + SHIP_HITBOX_RADIUS
          hit(damage) == [projectile |-> proj.id, owner_id |-> proj.owner_id,
                          target |-> <<"npc", npc_ids[i]>>, damage |-> damage,
                          killed |-> FALSE]
      IN  npc_hits_of(
            IF d2 <= SHIP_HITBOX_RADIUS * SHIP_HITBOX_RADIUS
            THEN [hits |-> Append(acc.hits, hit(config.damage)),
                  consumed |-> ~config.piercing]
            ELSE IF config.splash > 0 /\ d2 <= splash_r * splash_r
            THEN [acc EXCEPT !.hits =
                     Append(@, hit(splash_damage(config, Sqrt(d2))))]
            ELSE acc,
            proj, all, npc_ids, i + 1)

RECURSIVE npc_projectile_pass(_, _, _, _, _)
npc_projectile_pass(acc, projectiles, i, all, npc_ids) ==
    IF i > Len(projectiles) THEN acc
    ELSE npc_projectile_pass(
           The({[surviving |-> IF r.consumed THEN acc.surviving
                               ELSE Append(acc.surviving, projectiles[i]),
                 hits |-> r.hits] :
                r \in {npc_hits_of([hits |-> acc.hits, consumed |-> FALSE],
                                   projectiles[i], all, npc_ids, 1)}}),
           projectiles, i + 1, all, npc_ids)

\* type_str of the NPC collision targets of game_tick
npc_type_str(npc_type) ==
    CASE npc_type = "Pirate" -> "pirate"
      [] npc_type = "Trader" -> "trader"
      [] npc_type = "MiningDrone" -> "mining_drone"
      [] npc_type = "BountyHunter" -> "bounty_hunter"
      [] OTHER -> "station_guard"

\* The loot of a death event into the killer's inventory.
RECURSIVE award_loot(_, _, _, _)
award_loot(self, player_id, loot_items, i) ==
    IF i > Len(loot_items) THEN self
    ELSE award_loot(
           set_inventory(self, player_id,
                         Inventory_add(get_player(self, player_id).inventory,
                                       loot_items[i].item_type,
                                       loot_items[i].quantity)),
           player_id, loot_items, i + 1)

\* What game_tick does with the death event of an NPC hit: NPC_DEATH to the
\* zone, XP and the Kill objective to the killer, the loot to its inventory.
npc_death_rewards(self, zone_id, event, type_str) ==
    The({IF has_player(s, event.killer_id)
         THEN award_loot(s, event.killer_id, event.loot_items, 1)
         ELSE s :
         s \in {update_quest_objectives(rewarded, event.killer_id, "Kill",
                                       type_str, 1) :
           rewarded \in {award_xp(told, event.killer_id,
                                  XP_REWARD_COMBAT_KILL) :
             told \in {broadcast_to_zone(self, zone_id, "NPC_DEATH",
                                         event.npc_id)}}}})

\* The loop of game_tick over the NPC hits; types holds the type_str of the
\* NPC collision targets.
RECURSIVE damage_npcs(_, _, _, _, _, _)
damage_npcs(self, zone_id, hits, i, types, draw) ==
    IF i > Len(hits) THEN self
    ELSE damage_npcs(
           The({IF r.event.is_some
                THEN npc_death_rewards(
                       [self EXCEPT !.npcs = r.npcs,
                                    !.respawn_queue = r.respawn_queue],
                       zone_id, r.event, types[hits[i].target[2]])
                ELSE [self EXCEPT !.npcs = r.npcs,
                                  !.respawn_queue = r.respawn_queue] :
                r \in {damage_npc([npcs |-> self.npcs,
                                   respawn_queue |-> self.respawn_queue],
                                  hits[i].target[2], hits[i].damage,
                                  hits[i].owner_id, draw)}}),
           zone_id, hits, i + 1, types, draw)

\* NPC damage from player projectiles, of game_tick.
npc_damage_tick(self, zone_id, draw) ==
    LET npc_targets == {k \in DOMAIN self.npcs :
                          /\ self.npcs[k].zone_id = zone_id
                          /\ self.npcs[k].alive
                          /\ self.npcs[k].hp > 0}
        types == [k \in npc_targets |-> npc_type_str(self.npcs[k].npc_type)]
    IN  IF npc_targets = {} THEN self
        ELSE The({damage_npcs(
                    [self EXCEPT !.zone_projectiles[zone_id] = r.surviving,
                                 !.hits = r.hits],
                    zone_id, r.hits, Len(self.hits) + 1, types, draw) :
                  r \in {npc_projectile_pass(
                           [surviving |-> << >>, hits |-> self.hits],
                           self.zone_projectiles[zone_id], 1, self.npcs,
                           InOrder(npc_targets))}})

\* ------------------------------------------------------------------ mining

\* mining::start_mining_in_zone: whether the player may start.
may_start_mining(self, zone_id, player_id, node_id) ==
    /\ node_id \in DOMAIN self.resource_nodes[zone_id]
    /\ is_available(self.resource_nodes[zone_id][node_id])
    /\ player_id \in DOMAIN self.zones[zone_id]
    /\ dist_sq(self.zones[zone_id][player_id].x,
               self.zones[zone_id][player_id].y,
               self.resource_nodes[zone_id][node_id].x,
               self.resource_nodes[zone_id][node_id].y)
          <= MINING_RANGE * MINING_RANGE
    /\ Inventory_total(self.zones[zone_id][player_id].inventory)
          < INVENTORY_CAPACITY

handle_start_mining(self, conn_id, node_id) ==
    IF conn_id \notin DOMAIN self.conn_to_player THEN self
    ELSE
      LET player_id == self.conn_to_player[conn_id]
      IN  IF ~has_player(self, player_id) THEN self
          ELSE IF get_player(self, player_id).is_docked THEN self
          ELSE IF ~may_start_mining(self, self.player_to_zone[player_id],
                                    player_id, node_id) THEN self
          ELSE [self EXCEPT
                  !.zones[self.player_to_zone[player_id]][player_id]
                      .mining_node_id = node_id]

handle_stop_mining(self, conn_id) ==
    IF conn_id \notin DOMAIN self.conn_to_player THEN self
    ELSE
      LET player_id == self.conn_to_player[conn_id]
      IN  IF ~has_player(self, player_id) THEN self
          ELSE [self EXCEPT
                  !.zones[self.player_to_zone[player_id]][player_id] =
                      stop_mining(@)]

\* The miners of the zone as process_mining_tick collects them before it
\* mines: node, position and inventory total of each.
RECURSIVE mining_players(_, _, _)
mining_players(zone, player_ids, i) ==
    IF i > Len(player_ids) THEN << >>
    ELSE IF zone[player_ids[i]].mining_node_id = NoNode
    THEN mining_players(zone, player_ids, i + 1)
    ELSE <<[player_id |-> player_ids[i],
            node_id |-> zone[player_ids[i]].mining_node_id,
            px |-> zone[player_ids[i]].x, py |-> zone[player_ids[i]].y,
            inv_total |-> Inventory_total(zone[player_ids[i]].inventory)]>>
         \o mining_players(zone, player_ids, i + 1)

\* The variant of node_depleted that tells nobody.
node_depleted_untold(self, zone_id, player_id, node_id) ==
    IF is_available(self.resource_nodes[zone_id][node_id]) THEN self
    ELSE [self EXCEPT !.zones[zone_id][player_id] = stop_mining(@)]

\* The end of a miner's turn: if the node has nothing left the miner stops
\* and NODE_DEPLETED goes to the active players of the zone.
node_depleted(self, zone_id, player_id, node_id) ==
    IF is_available(self.resource_nodes[zone_id][node_id]) THEN self
    ELSE send_to_players(
             [self EXCEPT !.zones[zone_id][player_id] = stop_mining(@)],
             get_active_players(self, zone_id), "NODE_DEPLETED", node_id)

\* One miner's turn in process_mining_tick, with what game_tick does with its
\* result.
mine(self, zone_id, miner, time) ==
    LET nodes == self.resource_nodes[zone_id]
        stopped == [self EXCEPT !.zones[zone_id][miner.player_id] =
                                    stop_mining(@)]
    IN  IF miner.node_id \notin DOMAIN nodes THEN stopped
        ELSE IF ~is_available(nodes[miner.node_id]) THEN stopped
        ELSE IF dist_sq(miner.px, miner.py, nodes[miner.node_id].x,
                        nodes[miner.node_id].y) > MINING_RANGE * MINING_RANGE
        THEN stopped
        ELSE IF miner.inv_total >= INVENTORY_CAPACITY THEN stopped
        ELSE
          LET node == nodes[miner.node_id]
              r == extract(node, BASE_MINING_RATE * node.quality, time)
              was == Inventory_total(self.zones[zone_id][miner.player_id].inventory)
              s1 == [self EXCEPT
                       !.resource_nodes[zone_id][miner.node_id] = r.node,
                       !.zones[zone_id][miner.player_id] =
                           add_resource(@, node.resource_type, r.actual)]
              added == Inventory_total(s1.zones[zone_id][miner.player_id].inventory)
                          - was
              conn_id == IF miner.player_id \in DOMAIN self.player_to_conn
                         THEN self.player_to_conn[miner.player_id] ELSE 0
              s2 == send_to_conn(s1, conn_id, "MINING_UPDATE", miner.node_id)
              s3 == node_depleted(s2, zone_id, miner.player_id, miner.node_id)
          IN  The({update_quest_objectives(
                     award_xp(s, miner.player_id, added * XP_REWARD_MINING),
                     miner.player_id, "Mine", node.resource_type, added) :
                   s \in {s3}})

RECURSIVE mine_all(_, _, _, _, _)
mine_all(self, zone_id, miners, i, time) ==
    IF i > Len(miners) THEN self
    ELSE The({mine_all(s, zone_id, miners, i + 1, time) :
              s \in {mine(self, zone_id, miners[i], time)}})

\* Mining and the respawn of the nodes, of game_tick; the nodes read the clock
\* as the tick runs.
mining_tick(self, zone_id, server_time) ==
    The({tick_respawns(s, zone_id, server_time) :
         s \in {mine_all(self, zone_id,
                         mining_players(self.zones[zone_id],
                             InOrder(get_active_players(self, zone_id)), 1),
                         1, server_time)}})

\* ----------------------------------------------------------- core handlers

RECURSIVE restore_items(_, _, _)
restore_items(inv, items, left) ==
    IF left = {} THEN inv
    ELSE LET i == CHOOSE k \in left : TRUE
         IN  restore_items(Inventory_add(inv, i, items[i]), items, left \ {i})

restore_inventory(data) ==
    restore_items([Inventory_new EXCEPT !.omen_balance = data.omen_balance],
                  data.inventory_items, DOMAIN data.inventory_items)

\* draw decides the point random_spawn_position gives a new player.
handle_hello(self, conn_id, draw) ==
    IF conn_id \in DOMAIN self.conn_to_player THEN self
    ELSE IF DEFAULT_ZONE_ID \notin DOMAIN self.zones THEN self
    ELSE
      LET authenticated == conn_id \in DOMAIN self.authenticated_conns
          account_id == IF authenticated THEN self.authenticated_conns[conn_id]
                        ELSE NoAccount
          loaded == authenticated /\ has_saved_player(self.db, account_id)
          data == load_player(self.db, account_id)
          player_id == IF loaded THEN data.player_id ELSE self.next_player_id
          spawn_zone_id == IF loaded /\ data.zone_id \in DOMAIN self.zones
                           THEN data.zone_id ELSE DEFAULT_ZONE_ID
          spawn == random_spawn_position(DEFAULT_ZONE_ID, draw)
          fresh == IF loaded THEN Player_new(data.x, data.y)
                   ELSE Player_new(spawn[1], spawn[2])
          player == IF loaded
                    THEN [fresh EXCEPT !.inventory = restore_inventory(data)]
                    ELSE fresh
          s0 == insert_combat_state(self, player_id)
          s1 == [s0 EXCEPT
             !.next_player_id = IF loaded THEN @ ELSE @ + 1,
             !.zones[spawn_zone_id] = Insert(@, player_id, player),
             !.conn_to_player = Insert(@, conn_id, player_id),
             !.player_to_conn = Insert(@, player_id, conn_id),
             !.player_to_zone = Insert(@, player_id, spawn_zone_id),
             !.quest_trackers =
                 Insert(@, player_id,
                        IF loaded
                        THEN restore_active_quests(QuestTracker_new,
                                                   data.quest_progress)
                        ELSE QuestTracker_new),
             !.crafting_queues = Insert(@, player_id, << >>),
             !.player_equipment =
                 Insert(@, player_id,
                        IF loaded
                        THEN restore_equipment(PlayerEquipment_new,
                                               data.equipment_slots)
                        ELSE PlayerEquipment_new),
             !.player_progression =
                 Insert(@, player_id,
                        IF loaded
                        THEN [PlayerProgression_new EXCEPT
                                 !.level = data.level, !.xp = data.xp]
                        ELSE PlayerProgression_new),
             !.player_account_ids = IF loaded THEN Insert(@, player_id, account_id)
                                    ELSE @,
             !.player_combat_stats[player_id] =
                 IF loaded THEN restore_combat_stats(@, data) ELSE @]
          s2 == send_equipment_and_stats(
                  send_to_conn(send_to_conn(s1, conn_id, "WELCOME", player_id),
                               conn_id, "ZONE_INFO", spawn_zone_id),
                  player_id, conn_id)
      IN  send_existing_players(
            broadcast_to_zone_except(s2, spawn_zone_id, player_id,
                                     "PLAYER_JOINED", player_id),
            conn_id, get_active_players(s2, spawn_zone_id) \ {player_id})

\* A login names an account and gives a password that verifies or does not.
handle_auth_login(self, conn_id, account_id, password_ok) ==
    IF account_id \notin self.db.accounts THEN self
    ELSE IF ~password_ok THEN self
    ELSE [self EXCEPT !.authenticated_conns = Insert(@, conn_id, account_id)]

mark_disconnected(player, time) ==
    [player EXCEPT !.is_disconnected = TRUE, !.disconnect_time = time]

\* The loop of handle_disconnect that sends PLAYER_LEFT: the connection of
\* each active player is looked up with player_to_conn.get(..).unwrap_or(0),
\* and connection ids start at 1.
RECURSIVE send_left(_, _, _)
send_left(self, player_ids, id) ==
    IF player_ids = {} THEN self
    ELSE LET p == CHOOSE k \in player_ids : TRUE
         IN  send_left(send_to_conn(self,
                                    IF p \in DOMAIN self.player_to_conn
                                    THEN self.player_to_conn[p] ELSE 0,
                                    "PLAYER_LEFT", id),
                       player_ids \ {p}, id)

notify_disconnect(self, player_id, zone_id) ==
    send_left(self, get_active_players(self, zone_id) \ {player_id}, player_id)

\* The tail of handle_disconnect: mark the player in its zone, notify the zone.
disconnect_in_zone(self, player_id, zone_id) ==
    notify_disconnect(
        IF player_id \in DOMAIN self.zones[zone_id]
        THEN [self EXCEPT !.zones[zone_id][player_id] =
                              stop_mining(mark_disconnected(@, now))]
        ELSE self,
        player_id, zone_id)

handle_disconnect(self, conn_id) ==
    IF conn_id \notin DOMAIN self.conn_to_player
    THEN [self EXCEPT !.connections = @ \ {conn_id},
                      !.authenticated_conns = Remove(@, conn_id)]
    ELSE
      LET player_id == self.conn_to_player[conn_id]
          s1 == save_player_to_db(
                  [self EXCEPT !.conn_to_player = Remove(@, conn_id)], player_id)
          s2 == [remove_combat_state(s1, player_id) EXCEPT
                           !.player_to_conn = Remove(@, player_id),
                           !.connections = @ \ {conn_id},
                           !.authenticated_conns = Remove(@, conn_id),
                           !.quest_trackers = Remove(@, player_id),
                           !.crafting_queues = Remove(@, player_id),
                           !.player_progression = Remove(@, player_id),
                           !.player_equipment = Remove(@, player_id),
                           !.player_account_ids = Remove(@, player_id)]
      IN  IF player_id \notin DOMAIN s2.player_to_zone THEN s2
          ELSE IF s2.player_to_zone[player_id] \notin DOMAIN s2.zones THEN s2
          ELSE disconnect_in_zone(s2, player_id, s2.player_to_zone[player_id])

push_input(player, input) ==
    IF Len(player.input_buffer) < MAX_INPUT_BUFFER_SIZE
    THEN [player EXCEPT !.input_buffer = Append(@, input)]
    ELSE player

handle_input(self, conn_id, input) ==
    IF conn_id \notin DOMAIN self.conn_to_player THEN self
    ELSE
      LET player_id == self.conn_to_player[conn_id]
      IN  IF ~has_player(self, player_id) THEN self
          ELSE IF get_player(self, player_id).is_docked THEN self
          ELSE [self EXCEPT !.zones[self.player_to_zone[player_id]][player_id] =
                                push_input(@, input)]

\* The second half of transfer_player: place the player in the new zone and
\* tell the zone and the player of each other.
enter_zone(self, player, player_id, to_zone_id) ==
    IF to_zone_id \notin DOMAIN self.zones THEN self
    ELSE send_existing_players(
           broadcast_to_zone_except(
             [self EXCEPT !.zones[to_zone_id] = Insert(@, player_id, player),
                          !.player_to_zone = Insert(@, player_id, to_zone_id)],
             to_zone_id, player_id, "PLAYER_JOINED", player_id),
           self.player_to_conn[player_id],
           get_active_players(self, to_zone_id) \ {player_id})

\* draw decides the point random_spawn_position of the target zone returns.
transfer_player(self, player_id, from_zone_id, to_zone_id, draw) ==
    IF from_zone_id \notin DOMAIN self.zones THEN self
    ELSE IF player_id \notin DOMAIN self.zones[from_zone_id] THEN self
    ELSE
      LET player == stop_mining(self.zones[from_zone_id][player_id])
          s1 == [self EXCEPT !.zones[from_zone_id] = Remove(@, player_id)]
          spawn == random_spawn_position(to_zone_id, draw)
      IN  IF player_id \notin DOMAIN s1.player_to_conn THEN s1
          ELSE enter_zone(
                 broadcast_to_zone_except(s1, from_zone_id, player_id,
                                          "PLAYER_LEFT", player_id),
                 [player EXCEPT !.x = spawn[1], !.y = spawn[2],
                                !.vx = 0, !.vy = 0],
                 player_id, to_zone_id)

InSeq(x, seq) == \E i \in DOMAIN seq : seq[i] = x

\* The variant of handle_zone_transfer that accepts every zone there is.
handle_zone_transfer_anywhere(self, conn_id, target_zone_id, draw) ==
    IF conn_id \notin DOMAIN self.conn_to_player THEN self
    ELSE
      LET player_id == self.conn_to_player[conn_id]
      IN  IF ~has_player(self, player_id) THEN self
          ELSE IF get_player(self, player_id).is_docked THEN self
          ELSE IF target_zone_id \notin DOMAIN self.zones THEN self
          ELSE update_quest_objectives(
                 transfer_player(self, player_id, self.player_to_zone[player_id],
                                 target_zone_id, draw),
                 player_id, "Visit", target_zone_id, 1)

handle_zone_transfer(self, conn_id, target_zone_id, draw) ==
    IF conn_id \notin DOMAIN self.conn_to_player THEN self
    ELSE
      LET player_id == self.conn_to_player[conn_id]
      IN  IF ~has_player(self, player_id) THEN self
          ELSE IF get_player(self, player_id).is_docked THEN self
          ELSE IF target_zone_id \notin DOMAIN self.zones THEN self
          ELSE IF ~InSeq(target_zone_id,
                         zone_connections(self.player_to_zone[player_id])) THEN self
          ELSE update_quest_objectives(
                 transfer_player(self, player_id, self.player_to_zone[player_id],
                                 target_zone_id, draw),
                 player_id, "Visit", target_zone_id, 1)

\* ---------------------------------------------------------------- game tick

is_timed_out(player, time) ==
    /\ player.is_disconnected
    /\ player.disconnect_time # NoTime
    /\ time - player.disconnect_time > DISCONNECT_TIMEOUT_MS

\* simulate_movement for the inputs of the runs, <<input_x, input_y, seq>>,
\* whose first two components are both 1 or -1: the isometric transform turns
\* (1, 1) into the unit vector along x and (-1, 1) into the unit vector along
\* y, and dt is one tick.
simulate_movement(player, input) ==
    LET vx == ((input[2] + input[1]) \div 2) * MOVE_SPEED
        vy == ((input[2] - input[1]) \div 2) * MOVE_SPEED
    IN  [player EXCEPT !.x = @ + (vx * TICK_INTERVAL_MS) \div 1000,
                       !.y = @ + (vy * TICK_INTERVAL_MS) \div 1000,
                       !.vx = vx, !.vy = vy]

\* The movement of one player in game_tick: the last input of the buffer is
\* applied and the buffer emptied; a player without inputs stands still.
move_player(player) ==
    IF player.is_disconnected \/ player.is_docked THEN player
    ELSE IF player.input_buffer = << >>
    THEN [player EXCEPT !.vx = 0, !.vy = 0]
    ELSE [simulate_movement(player, player.input_buffer[Len(player.input_buffer)])
            EXCEPT !.input_buffer = << >>,
                   !.last_processed_seq =
                       player.input_buffer[Len(player.input_buffer)][3]]

RECURSIVE boundary_transfers(_, _, _, _, _)
boundary_transfers(self, zone_id, target, player_ids, draw) ==
    IF player_ids = {} THEN self
    ELSE LET pid == CHOOSE k \in player_ids : TRUE
         IN  boundary_transfers(transfer_player(self, pid, zone_id, target, draw),
                                zone_id, target, player_ids \ {pid}, draw)

\* The head of one pass of the per-zone loop of game_tick: time-outs,
\* movement, boundary transfers.
tick_zone_players(self, zone_id, draw, server_time) ==
    LET timed_out == {k \in DOMAIN self.zones[zone_id] :
                        is_timed_out(self.zones[zone_id][k], server_time)}
        s1 == [self EXCEPT
                 !.zones[zone_id] = [k \in (DOMAIN @) \ timed_out |-> @[k]],
                 !.player_to_zone = [k \in (DOMAIN @) \ timed_out |-> @[k]]]
        s2 == [s1 EXCEPT !.zones[zone_id] = [k \in DOMAIN @ |-> move_player(@[k])]]
        out == {k \in DOMAIN s2.zones[zone_id] :
                  /\ ~s2.zones[zone_id][k].is_disconnected
                  /\ ~s2.zones[zone_id][k].is_docked
                  /\ is_out_of_bounds(zone_id, s2.zones[zone_id][k].x,
                                      s2.zones[zone_id][k].y)}
        target == zone_connections(zone_id)[1]
    IN  IF target \in DOMAIN s2.zones
        THEN boundary_transfers(s2, zone_id, target, out, draw)
        ELSE s2

\* One pass of the per-zone loop of game_tick.
tick_zone(self, zone_id, draw, server_time) ==
    The({npc_damage_tick(fought, zone_id, draw) :
         fought \in {combat_tick(crafted, zone_id, server_time) :
           crafted \in {crafting_tick(mined, zone_id, server_time) :
             mined \in {mining_tick(moved, zone_id, server_time) :
               moved \in {tick_zone_players(self, zone_id, draw,
                                            server_time)}}}}})

RECURSIVE tick_zones(_, _, _, _, _)
tick_zones(self, zone_ids, i, draw, server_time) ==
    IF i > Len(zone_ids) THEN self
    ELSE The({tick_zones(s, zone_ids, i + 1, draw, server_time) :
              s \in {tick_zone(self, zone_ids[i], draw, server_time)}})

\* zone_ids is the order in which the HashMap yields the zones; draw decides
\* the points the players transferred in this tick are given.
game_tick(self, zone_ids, draw, server_time) ==
    LET spawned == process_spawn_tick(self, TICK_INTERVAL_MS, draw)
        s1 == tick_zones(process_ai_tick(spawned,
                                         InOrder(DOMAIN spawned.npcs), 1,
                                         server_time),
                         zone_ids, 1, draw, server_time)
    IN  IF server_time - s1.last_save_time >= AUTO_SAVE_INTERVAL_MS
        THEN [save_all_players(s1) EXCEPT !.last_save_time = server_time]
        ELSE s1

\* --------------------------------------------------------- market handlers

NoReply == [success |-> FALSE, error |-> NoneVal]

\* OrderSide of the payload's side string; NoneVal for any other string
parse_side(side) ==
    IF side = "buy" THEN "Buy" ELSE IF side = "sell" THEN "Sell" ELSE NoneVal

credit_omen(self, player_id, amount) ==
    IF has_player(self, player_id)
    THEN set_inventory(self, player_id,
                       add_omen(get_player(self, player_id).inventory, amount))
    ELSE self

give_items(self, player_id, item_type, quantity) ==
    IF has_player(self, player_id)
    THEN set_inventory(self, player_id,
                       Inventory_add(get_player(self, player_id).inventory,
                                     item_type, quantity))
    ELSE self

refund_due(side, order, trade) ==
    side = "Buy" /\ FGt(order.price_per_unit, trade.price_per_unit)

refund_amount(order, trade) ==
    FMul(trade.quantity, FSub(order.price_per_unit, trade.price_per_unit))

\* One pass of the settlement loop of handle_market_place_order.
settle_trade(self, side, order, trade) ==
    LET seller_receives == FSub(trade.total_price, trade.fee)
        s1 == credit_omen(self, trade.seller_id, seller_receives)
        s2 == give_items(s1, trade.buyer_id, trade.item_type, trade.quantity)
        s3 == IF refund_due(side, order, trade)
              THEN credit_omen(s2, trade.buyer_id, refund_amount(order, trade))
              ELSE s2
    IN  IF side = "Sell"
        THEN update_quest_objectives(s3, trade.seller_id, "Sell",
                                     trade.item_type, trade.quantity)
        ELSE s3

RECURSIVE settle_trades(_, _, _, _, _)
settle_trades(self, side, order, trades, i) ==
    IF i > Len(trades) THEN self
    ELSE settle_trades(settle_trade(self, side, order, trades[i]),
                       side, order, trades, i + 1)

\* A handler returns the server as it leaves it, and the reply it sends to
\* the requesting connection (sent is FALSE when it returns without one).
handle_market_place_order(self, conn_id, payload) ==
    IF conn_id \notin DOMAIN self.conn_to_player
    THEN [self |-> self, sent |-> FALSE, reply |-> NoReply]
    ELSE
      LET player_id == self.conn_to_player[conn_id]
          side == parse_side(payload.side)
      IN
      IF player_id \notin DOMAIN self.player_to_zone
      THEN [self |-> self, sent |-> FALSE, reply |-> NoReply]
      ELSE IF side = NoneVal
      THEN [self |-> self, sent |-> conn_id \in self.connections,
            reply |-> [success |-> FALSE, error |-> "Invalid order side"]]
      ELSE IF ~has_player(self, player_id)
      THEN [self |-> self, sent |-> FALSE, reply |-> NoReply]
      ELSE
        \* let result = self.market.place_order(..)
        The({LET s1 == set_inventory([self EXCEPT !.market = result.market],
                                     player_id, result.inventory)
             IN  IF result.error # NoneVal
                 THEN [self |-> s1, sent |-> conn_id \in self.connections,
                       reply |-> [success |-> FALSE, error |-> result.error]]
                 ELSE [self |-> settle_trades(s1, side, result.order, result.trades, 1),
                       sent |-> conn_id \in self.connections,
                       reply |-> [success |-> TRUE, error |-> NoneVal,
                                  order_id |-> result.order.order_id,
                                  filled_immediately |-> result.order.filled_quantity,
                                  trades |-> result.trades]]
             : result \in {place_order(self.market, player_id, payload.item_type,
                                       payload.quantity, payload.price, side,
                                       get_player(self, player_id).inventory, now)}})

handle_market_cancel_order(self, conn_id, order_id) ==
    IF conn_id \notin DOMAIN self.conn_to_player
    THEN [self |-> self, sent |-> FALSE, reply |-> NoReply]
    ELSE
      LET player_id == self.conn_to_player[conn_id]
      IN
      IF ~has_player(self, player_id)
      THEN [self |-> self, sent |-> FALSE, reply |-> NoReply]
      ELSE
        LET result == cancel_order(self.market, player_id, order_id,
                                   get_player(self, player_id).inventory)
        IN  [self |-> set_inventory([self EXCEPT !.market = result.market],
                                    player_id, result.inventory),
             sent |-> conn_id \in self.connections,
             reply |-> [success |-> result.success, error |-> result.error]]

handle_market_request_book(self, conn_id, item_type) ==
    [self |-> self, sent |-> conn_id \in self.connections,
     reply |-> [success |-> TRUE, error |-> NoneVal,
                snapshot |-> get_order_book(self.market, item_type)]]

\* ------------------------------------------------------------------- clock

\* Advances of the clock so far: each is one tick interval or one disconnect
\* timeout.
ElapsedSteps ==
    (now \div DISCONNECT_TIMEOUT_MS)
        + ((now % DISCONNECT_TIMEOUT_MS) \div TICK_INTERVAL_MS)

\* ------------------------------------------------------- the market's runs

\* Requests of the market runs, which all arrive within one millisecond of
\* the clock.  Prices are in hundredths of an OMEN.
Quantities == {0, 5, 10}
Prices == {0 - 5000, 0, 5000, 6000, NaN}
OrderRequests ==
    [side : {"buy", "sell"}, item_type : TradedItems,
     quantity : Quantities, price : Prices]
    \cup {[side |-> "hold", item_type |-> "iron", quantity |-> 5, price |-> 5000]}

\* Iron held by player 1 when a market run starts: 5 units short of capacity.
InitIron == {INVENTORY_CAPACITY - 5}

MarketPlayer(iron, omen) ==
    [Player_new(0, 0) EXCEPT !.inventory.items["iron"] = iron,
                             !.inventory.omen_balance = omen]

\* Two connections have said HELLO and their players, 1 and 2, are in the
\* default zone.  Player 1 has mined InitIron units of iron; player 2 has
\* mined 20 and has 1000 OMEN left, which pays for one order of 10 at 60.
InitMarket ==
    /\ \E iron \in InitIron :
         zones = [z \in ZoneIds |->
                    IF z = DEFAULT_ZONE_ID
                    THEN [p \in {1, 2} |->
                            IF p = 1 THEN MarketPlayer(iron, STARTING_OMEN)
                            ELSE MarketPlayer(20, 1000 * CENTS)]
                    ELSE EmptyMap]
    /\ connections = {1, 2}
    /\ conn_to_player = [c \in {1, 2} |-> c]
    /\ player_to_conn = [p \in {1, 2} |-> p]
    /\ player_to_zone = [p \in {1, 2} |-> DEFAULT_ZONE_ID]
    /\ next_player_id = 3
    /\ authenticated_conns = EmptyMap
    /\ player_account_ids = EmptyMap
    /\ db = Database_new
    /\ market = Market_new
    /\ quest_trackers = [p \in {1, 2} |-> QuestTracker_new]
    /\ last_save_time = 0
    /\ next_conn_id = 3
    /\ now = 0
    /\ player_combat_stats = [p \in {1, 2} |-> create_default_combat_stats]
    /\ player_weapon_cooldowns = [p \in {1, 2} |-> EmptyMap]
    /\ player_death_times = [p \in {1, 2} |-> NoTime]
    /\ zone_projectiles = [z \in ZoneIds |-> << >>]
    /\ next_projectile_id = 1
    /\ npcs = EmptyMap
    /\ died_at = EmptyMap
    /\ damaged = {}
    /\ mining_frames = EmptyMap
    /\ mining_since = EmptyMap
    /\ player_equipment = [p \in DOMAIN player_to_zone |-> PlayerEquipment_new]
    /\ net = Net_new
    /\ respawn_queue = << >>
    /\ next_npc_id = Cardinality(DOMAIN npcs) + 1
    /\ quest_completions = CompletedOnce(quest_trackers)
    /\ crafting_queues = [p \in DOMAIN player_to_zone |-> << >>]
    /\ player_progression =
          [p \in DOMAIN player_to_zone |-> PlayerProgression_new]
    /\ resource_nodes = SpawnedNodes

MarketPlaceOrder ==
    /\ Len(market.orders_by_id) < MaxOrders
    /\ \E conn_id \in connections, payload \in OrderRequests :
         LET r == handle_market_place_order(Self, conn_id, payload)
         IN  Becomes(r.self)
    /\ UNCHANGED <<next_conn_id, now>>

MarketCancelOrder ==
    /\ \E conn_id \in connections, order_id \in 1..(Len(market.orders_by_id) + 1) :
         LET r == handle_market_cancel_order(Self, conn_id, order_id)
         IN  Becomes(r.self)
    /\ UNCHANGED <<next_conn_id, now>>

MarketRequestBook ==
    /\ \E conn_id \in connections, item_type \in TradedItems :
         LET r == handle_market_request_book(Self, conn_id, item_type)
         IN  Becomes(r.self)
    /\ UNCHANGED <<next_conn_id, now>>

NextMarket ==
    \/ MarketPlaceOrder
    \/ MarketCancelOrder
    \/ MarketRequestBook

SpecMarket == InitMarket /\ [][NextMarket]_vars

\* -------------------------------------------------- the connections' runs

MaxBuffered == 1     \* inputs a client sends between two ticks

\* Orders in which the zones' HashMap yields the zones.
ZoneOrders ==
    {<<"uurf-orbit", "uurf-hub", "uurf-surface", "asteroid-belt-alpha">>,
     <<"asteroid-belt-alpha", "uurf-surface", "uurf-hub", "uurf-orbit">>}

\* Inputs of the runs: full speed along x, towards the right edge, with the
\* sequence number a client starts from.
Inputs == {<<1, 1, 0>>}

\* Zones the runs' clients ask to be transferred to: the default zone (not
\* connected to itself) and the first zone connected to it.
TransferTargets == {"uurf-orbit", "uurf-hub"}

\* Accounts named by the logins of the runs: account 1 is registered.
LoginAccounts == {1, 2}

SavedRow ==
    [account_id |-> 1, zone_id |-> DEFAULT_ZONE_ID, x |-> 0, y |-> 0,
     omen_balance |-> STARTING_OMEN, hp |-> DEFAULT_MAX_HP, shield |-> DEFAULT_MAX_SHIELD,
     inventory_items |-> [i \in ItemTypes |-> IF i = "iron" THEN 20 ELSE 0],
     equipment_slots |-> EmptyMap, quest_progress |-> EmptyMap,
     level |-> 1, xp |-> 0]

\* odyssey.db as the server finds it: account 1 is registered, and either no
\* player is saved or player 1 is saved as the player of account 1.
InitDatabases ==
    {[accounts |-> {1}, players |-> EmptyMap],
     [accounts |-> {1}, players |-> [k \in {1} |-> SavedRow]]}

\* GameServer::new
InitConn ==
    /\ zones = create_sol_proxima
    /\ connections = {}
    /\ conn_to_player = EmptyMap
    /\ player_to_conn = EmptyMap
    /\ player_to_zone = EmptyMap
    /\ db \in InitDatabases
    /\ next_player_id = db_next_player_id(db)
    /\ authenticated_conns = EmptyMap
    /\ player_account_ids = EmptyMap
    /\ market = Market_new
    /\ quest_trackers = EmptyMap
    /\ last_save_time = 0
    /\ next_conn_id = 1
    /\ now = 0
    /\ player_combat_stats = EmptyMap
    /\ player_weapon_cooldowns = EmptyMap
    /\ player_death_times = EmptyMap
    /\ zone_projectiles = [z \in ZoneIds |-> << >>]
    /\ next_projectile_id = 1
    /\ npcs = EmptyMap
    /\ died_at = EmptyMap
    /\ damaged = {}
    /\ mining_frames = EmptyMap
    /\ mining_since = EmptyMap
    /\ player_equipment = [p \in DOMAIN player_to_zone |-> PlayerEquipment_new]
    /\ net = Net_new
    /\ respawn_queue = << >>
    /\ next_npc_id = Cardinality(DOMAIN npcs) + 1
    /\ quest_completions = CompletedOnce(quest_trackers)
    /\ crafting_queues = [p \in DOMAIN player_to_zone |-> << >>]
    /\ player_progression =
          [p \in DOMAIN player_to_zone |-> PlayerProgression_new]
    /\ resource_nodes = SpawnedNodes

\* The accept loop takes a connection and the game loop registers it.
AddConnection ==
    /\ next_conn_id <= MaxConns
    /\ connections' = connections \cup {next_conn_id}
    /\ next_conn_id' = next_conn_id + 1
    /\ UNCHANGED <<zones, conn_to_player, player_to_conn, player_to_zone,
                   next_player_id, authenticated_conns, player_account_ids, db,
                   market, quest_trackers, last_save_time, now,
                   player_combat_stats, player_weapon_cooldowns,
                   player_death_times, zone_projectiles,
                   next_projectile_id, npcs, died_at, damaged,
                   resource_nodes, mining_frames, mining_since,
                   crafting_queues, player_progression,
                   player_equipment, net, respawn_queue,
                   next_npc_id, quest_completions>>

AuthLogin ==
    /\ \E conn_id \in connections, account_id \in LoginAccounts, password_ok \in BOOLEAN :
         Becomes(handle_auth_login(Self, conn_id, account_id, password_ok))
    /\ UNCHANGED <<next_conn_id, now>>

Hello ==
    /\ next_player_id <= MaxPlayerId
    /\ \E conn_id \in connections, draw \in SpawnDraws :
         Becomes(handle_hello(Self, conn_id, draw))
    /\ UNCHANGED <<next_conn_id, now>>

Input ==
    /\ \E conn_id \in connections, input \in Inputs :
         /\ conn_id \in DOMAIN conn_to_player
         /\ has_player(Self, conn_to_player[conn_id])
         /\ Len(get_player(Self, conn_to_player[conn_id]).input_buffer) < MaxBuffered
         /\ Becomes(handle_input(Self, conn_id, input))
    /\ UNCHANGED <<next_conn_id, now>>

ZoneTransfer ==
    /\ \E conn_id \in connections, target_zone_id \in TransferTargets,
          draw \in SpawnDraws :
         Becomes(handle_zone_transfer(Self, conn_id, target_zone_id, draw))
    /\ UNCHANGED <<next_conn_id, now>>

Disconnect ==
    /\ \E conn_id \in connections : Becomes(handle_disconnect(Self, conn_id))
    /\ UNCHANGED <<next_conn_id, now>>

\* Time from one run of the loop to the next: one tick interval, or, when the
\* loop overruns and skips the ticks it misses, as long as a disconnect
\* timeout.  A run has at most one such gap.
TickDelays == {TICK_INTERVAL_MS, DISCONNECT_TIMEOUT_MS}

\* The loop's interval fires and the loop runs game_tick.
GameTick ==
    /\ ElapsedSteps < MaxElapse
    /\ \E delay \in TickDelays, zone_ids \in ZoneOrders, draw \in SpawnDraws :
         /\ delay = DISCONNECT_TIMEOUT_MS => now < DISCONNECT_TIMEOUT_MS
         /\ now' = now + delay
         /\ BecomesAt(game_tick(Self, zone_ids, draw, now + delay),
                      now + delay)
    /\ UNCHANGED next_conn_id

NextConn ==
    \/ AddConnection
    \/ AuthLogin
    \/ Hello
    \/ Input
    \/ ZoneTransfer
    \/ Disconnect
    \/ GameTick

SpecConn == InitConn /\ [][NextConn]_vars

\* --------------------------------------------------------- the combat runs

MaxShortTicks == 2     \* runs of the loop one tick interval after the last
MaxProjectiles == 2    \* projectiles fired in one run
CombatStart == 10000   \* server time at which the combat runs start
MaxCombatConns == 3    \* connections of one combat run, the two first included

\* Time from one run of the loop to the next in the combat runs: a tick
\* interval, or a gap that brings the clock to a weapon's cooldown or to the
\* respawn and regeneration delays.  A run has at most one gap of each length.
CombatDelays == {TICK_INTERVAL_MS, 450, 4500}

\* The runs of the loop so far that came one tick interval, 450 ms and 4500 ms
\* after the last.
ShortTicks == ((now - CombatStart) % 450) \div TICK_INTERVAL_MS
MiddleGaps == ((now - CombatStart) % 4500) \div 450
LongGaps == (now - CombatStart) \div 4500

\* A pirate that attacks player 2 from 100 units off the line the players stand
\* on and fired 900 ms ago, and a mining drone that mines 45 units to the right
\* of player 1.
AttackingPirate ==
    [NPC_new("Pirate", "asteroid-belt-alpha", 0, 100) EXCEPT
        !.behavior_state = "Attack", !.target_player_id = 2,
        !.cooldown_timer = 100]
MiningDroneAhead ==
    [NPC_new("MiningDrone", "asteroid-belt-alpha", 45, 0) EXCEPT
        !.behavior_state = "Mine"]

FullStats == [hp |-> DEFAULT_MAX_HP, shield |-> DEFAULT_MAX_SHIELD]
\* the hit points a laser takes, and no shield
WeakStats == [hp |-> 8, shield |-> 0]

\* How a combat run starts: the zone the two players stand in, how far to the
\* right of player 1 player 2 stands, the hit points and shield of player 2's
\* saved row, and the NPCs of the zone.
Arenas ==
    {[zone_id |-> "asteroid-belt-alpha", offset |-> 10, saved |-> FullStats,
      npcs |-> EmptyMap],
     [zone_id |-> "asteroid-belt-alpha", offset |-> 40, saved |-> WeakStats,
      npcs |-> EmptyMap],
     [zone_id |-> "asteroid-belt-alpha", offset |-> 40, saved |-> WeakStats,
      npcs |-> [k \in {1} |-> AttackingPirate]],
     [zone_id |-> "asteroid-belt-alpha", offset |-> 40, saved |-> FullStats,
      npcs |-> [k \in {1} |-> MiningDroneAhead]],
     [zone_id |-> "uurf-hub", offset |-> 10, saved |-> WeakStats,
      npcs |-> EmptyMap],
     [zone_id |-> "uurf-surface", offset |-> 10, saved |-> WeakStats,
      npcs |-> EmptyMap]}

ArenaRow(account_id, zone_id, x, stats) ==
    [account_id |-> account_id, zone_id |-> zone_id, x |-> x, y |-> 0,
     omen_balance |-> STARTING_OMEN, hp |-> stats.hp, shield |-> stats.shield,
     inventory_items |-> [i \in ItemTypes |-> 0],
     equipment_slots |-> EmptyMap, quest_progress |-> EmptyMap,
     level |-> 1, xp |-> 0]

\* The server of a run that starts as arena says.
InitArena(arena) ==
    /\ zones = [z \in ZoneIds |->
                  IF z = arena.zone_id
                  THEN [p \in {1, 2} |->
                          Player_new(IF p = 1 THEN 0 ELSE arena.offset, 0)]
                  ELSE EmptyMap]
    /\ connections = {1, 2}
    /\ conn_to_player = [c \in {1, 2} |-> c]
    /\ player_to_conn = [p \in {1, 2} |-> p]
    /\ player_to_zone = [p \in {1, 2} |-> arena.zone_id]
    /\ next_player_id = 3
    /\ authenticated_conns = [c \in {1, 2} |-> c]
    /\ player_account_ids = [p \in {1, 2} |-> p]
    /\ db = [accounts |-> {1, 2},
             players |-> [p \in {1, 2} |->
                 IF p = 1
                 THEN ArenaRow(1, arena.zone_id, 0, create_default_combat_stats)
                 ELSE ArenaRow(2, arena.zone_id, arena.offset,
                               arena.saved)]]
    /\ market = Market_new
    /\ quest_trackers = [p \in {1, 2} |-> QuestTracker_new]
    /\ last_save_time = CombatStart
    /\ next_conn_id = 3
    /\ now = CombatStart
    /\ player_combat_stats =
          [p \in {1, 2} |->
              IF p = 1 THEN create_default_combat_stats
              ELSE restore_combat_stats(
                       create_default_combat_stats,
                       ArenaRow(2, arena.zone_id, arena.offset,
                                arena.saved))]
    /\ player_weapon_cooldowns = [p \in {1, 2} |-> EmptyMap]
    /\ player_death_times = [p \in {1, 2} |-> NoTime]
    /\ zone_projectiles = [z \in ZoneIds |-> << >>]
    /\ next_projectile_id = 1
    /\ npcs = arena.npcs
    /\ died_at = EmptyMap
    /\ damaged = {}
    /\ mining_frames = EmptyMap
    /\ mining_since = EmptyMap
    /\ player_equipment = [p \in DOMAIN player_to_zone |-> PlayerEquipment_new]
    /\ net = Net_new
    /\ respawn_queue = << >>
    /\ next_npc_id = Cardinality(DOMAIN npcs) + 1
    /\ quest_completions = CompletedOnce(quest_trackers)
    /\ crafting_queues = [p \in DOMAIN player_to_zone |-> << >>]
    /\ player_progression =
          [p \in DOMAIN player_to_zone |-> PlayerProgression_new]
    /\ resource_nodes = SpawnedNodes

\* Two players, each loaded by handle_hello from the row of its account, stand
\* in one zone.
InitCombat ==
    \E arena \in Arenas : InitArena(arena)

\* Slots the clients name: the two equipped slots.
WeaponSlots == {0, 1}

\* The aim of every shot of the runs.
AimX == 10

\* The client of the first player fires.
FireWeapon ==
    /\ next_projectile_id <= MaxProjectiles
    /\ \E weapon_slot \in WeaponSlots :
         Becomes(handle_fire_weapon(Self, 1, weapon_slot, AimX))
    /\ UNCHANGED <<next_conn_id, now>>

RespawnRequest ==
    /\ \E conn_id \in connections, draw \in SpawnDraws :
         Becomes(handle_respawn_request(Self, conn_id, draw))
    /\ UNCHANGED <<next_conn_id, now>>

\* The client of the second player leaves.
CombatDisconnect ==
    /\ \E conn_id \in connections \ {1} :
         Becomes(handle_disconnect(Self, conn_id))
    /\ UNCHANGED <<next_conn_id, now>>

\* A client connects, logs in to account 2 and sends HELLO, all of which the
\* loop drains before its next tick.
Rejoin ==
    /\ next_conn_id <= MaxCombatConns
    /\ Becomes(handle_hello(
                   handle_auth_login(
                     [Self EXCEPT !.connections = @ \cup {next_conn_id}],
                     next_conn_id, 2, TRUE),
                   next_conn_id, "centre"))
    /\ next_conn_id' = next_conn_id + 1
    /\ UNCHANGED now

\* The order in which the loop visits the zones in the combat runs.
CombatZoneOrder ==
    <<"uurf-orbit", "uurf-hub", "uurf-surface", "asteroid-belt-alpha">>

DelayAllowed(delay) ==
    CASE delay = TICK_INTERVAL_MS -> ShortTicks < MaxShortTicks
      [] delay = 450 -> MiddleGaps = 0
      [] OTHER -> LongGaps = 0

CombatTick ==
    /\ \E delay \in CombatDelays :
         /\ DelayAllowed(delay)
         /\ now' = now + delay
         /\ BecomesAt(game_tick(Self, CombatZoneOrder, "centre", now + delay),
                      now + delay)
    /\ UNCHANGED next_conn_id

NextCombat ==
    \/ FireWeapon
    \/ RespawnRequest
    \/ CombatDisconnect
    \/ Rejoin
    \/ CombatTick

SpecCombat == InitCombat /\ [][NextCombat]_vars

\* --------------------------------------------------------- the pirate runs

\* How far from player 1, along y, the NPC of a pirate run is: within its
\* attack range, between its aggro range and one and a half times that, and
\* beyond.  For a bounty hunter the second is its aggro range exactly.
PirateSpots == {100, 250, 400}

\* The NPC of a pirate run: a pirate or a bounty hunter in one of its states,
\* with all its hit points or with the share of them at which it flees, idle
\* for no time or for one tick less than 2 s, and with player 2 as its target
\* when it chases, attacks or flees.  An NPC that flees has no more than that share, as hit points
\* never come back.
PirateStarts ==
    {[NPC_new(start.npc_type, "asteroid-belt-alpha", 0, start.y) EXCEPT
         !.behavior_state = start.behavior_state,
         !.target_player_id =
             IF start.behavior_state \in {"Chase", "Attack", "Flee"}
             THEN 2 ELSE NoTarget,
         !.idle_timer = start.idle_timer,
         !.hp = IF start.low
                THEN (get_npc_template(start.npc_type).flee_threshold
                        * get_npc_template(start.npc_type).max_hp) \div 100
                ELSE @] :
     start \in {t \in [npc_type : {"Pirate", "BountyHunter"},
                       behavior_state : {"Idle", "Patrol", "Chase", "Attack",
                                         "Flee"},
                       y : PirateSpots, low : BOOLEAN,
                       idle_timer : {0, IDLE_TIME_MS - TICK_INTERVAL_MS}] :
                   /\ t.behavior_state = "Flee" => t.low
                   /\ t.behavior_state # "Idle" => t.idle_timer = 0}}

PirateArenas ==
    {[zone_id |-> "asteroid-belt-alpha", offset |-> 40, saved |-> FullStats,
      npcs |-> [k \in {1} |-> npc]] : npc \in PirateStarts}

InitPirate ==
    \E arena \in PirateArenas : InitArena(arena)

\* The client of player 2 leaves and comes back, and the loop runs.
NextPirate ==
    \/ CombatDisconnect
    \/ Rejoin
    \/ CombatTick

SpecPirate == InitPirate /\ [][NextPirate]_vars

\* --------------------------------------------------------- the mining runs

MaxMiningTicks == 10   \* runs of the loop one tick interval after the last

\* Time from one run of the loop to the next in the mining runs: a tick
\* interval, or a gap longer than the respawn time of a node.  A run has at
\* most one long gap.
MiningDelays == {TICK_INTERVAL_MS, 40000}

\* What is left in the node as a mining run starts: all of it, or what is
\* left after six extractions.
NodeLevels == {150, 30}

\* The node of the zone as a mining run starts: the spawned node of quality 2 at
\* (50, 0) at one of the levels, or a full node of quality 1 at the centre,
\* where player 1 stands.
MinedNodes ==
    {[SpawnedNodes[DEFAULT_ZONE_ID][1] EXCEPT !.current_amount = level] :
        level \in NodeLevels}
      \cup {ResourceNode_new("iron", 0, 0, 1)}

\* Iron player 1 holds as a mining run starts: none, or 10 units short of
\* capacity.
MinedIron == {0, INVENTORY_CAPACITY - 10}

\* Where player 2 is as a mining run starts: 100 units from the node along x,
\* 80 units from it along x and 80 along y, or 101 units from it along x.
MinerSpots == {<<150, 0>>, <<130, 80>>, <<151, 0>>}

\* Two players are in the default zone, player 1 at the centre and player 2 at
\* one of the spots.
InitMining ==
    \E node \in MinedNodes, iron \in MinedIron, spot \in MinerSpots :
      /\ zones = [z \in ZoneIds |->
                    IF z = DEFAULT_ZONE_ID
                    THEN [p \in {1, 2} |->
                            IF p = 1
                            THEN [Player_new(0, 0) EXCEPT
                                     !.inventory.items["iron"] = iron]
                            ELSE Player_new(spot[1], spot[2])]
                    ELSE EmptyMap]
      /\ connections = {1, 2}
      /\ conn_to_player = [c \in {1, 2} |-> c]
      /\ player_to_conn = [p \in {1, 2} |-> p]
      /\ player_to_zone = [p \in {1, 2} |-> DEFAULT_ZONE_ID]
      /\ next_player_id = 3
      /\ authenticated_conns = EmptyMap
      /\ player_account_ids = EmptyMap
      /\ db = Database_new
      /\ market = Market_new
      /\ quest_trackers = [p \in {1, 2} |-> QuestTracker_new]
      /\ last_save_time = 0
      /\ next_conn_id = 3
      /\ now = 0
      /\ player_combat_stats = [p \in {1, 2} |-> create_default_combat_stats]
      /\ player_weapon_cooldowns = [p \in {1, 2} |-> EmptyMap]
      /\ player_death_times = [p \in {1, 2} |-> NoTime]
      /\ zone_projectiles = [z \in ZoneIds |-> << >>]
      /\ next_projectile_id = 1
      /\ npcs = EmptyMap
      /\ died_at = EmptyMap
      /\ damaged = {}
      /\ mining_frames = EmptyMap
      /\ mining_since = EmptyMap
      /\ player_equipment = [p \in DOMAIN player_to_zone |-> PlayerEquipment_new]
      /\ net = Net_new
      /\ respawn_queue = << >>
      /\ next_npc_id = Cardinality(DOMAIN npcs) + 1
      /\ quest_completions = CompletedOnce(quest_trackers)
      /\ crafting_queues = [p \in DOMAIN player_to_zone |-> << >>]
      /\ player_progression =
            [p \in DOMAIN player_to_zone |-> PlayerProgression_new]
      /\ resource_nodes =
            [SpawnedNodes EXCEPT ![DEFAULT_ZONE_ID][1] = node]

\* Node ids the clients name: the node of the zone and one that is not there.
NodeIds == {1, 2}

StartMining ==
    /\ \E conn_id \in connections, node_id \in NodeIds :
         Becomes(handle_start_mining(Self, conn_id, node_id))
    /\ UNCHANGED <<next_conn_id, now>>

StopMining ==
    /\ \E conn_id \in connections : Becomes(handle_stop_mining(Self, conn_id))
    /\ UNCHANGED <<next_conn_id, now>>

MiningTick ==
    /\ \E delay \in MiningDelays :
         /\ IF delay = TICK_INTERVAL_MS
            THEN (now % 40000) \div TICK_INTERVAL_MS < MaxMiningTicks
            ELSE now < 40000
         /\ now' = now + delay
         /\ BecomesAt(game_tick(Self, CombatZoneOrder, "centre", now + delay),
                      now + delay)
    /\ UNCHANGED next_conn_id

NextMining ==
    \/ StartMining
    \/ StopMining
    \/ MiningTick

SpecMining == InitMining /\ [][NextMining]_vars

\* ------------------------------------------------------- the movement runs

MaxMoveTicks == 2      \* runs of the loop in one movement run

\* Where the two players are as a movement run starts: in the default zone,
\* player 1 one step of movement from its right edge and player 2 at the
\* centre; player 1 as near the right edge of the station and player 2 in the
\* default zone; or both at the centre of the default zone.
MoveArenas ==
    {[zone |-> <<"uurf-orbit", "uurf-orbit">>, x |-> <<2480, 0>>],
     [zone |-> <<"uurf-hub", "uurf-orbit">>, x |-> <<980, 0>>],
     [zone |-> <<"uurf-orbit", "uurf-orbit">>, x |-> <<0, 0>>]}

InitMove ==
    \E arena \in MoveArenas :
      /\ zones = [z \in ZoneIds |->
                    [p \in {q \in {1, 2} : arena.zone[q] = z} |->
                        Player_new(arena.x[p], 0)]]
      /\ connections = {1, 2}
      /\ conn_to_player = [c \in {1, 2} |-> c]
      /\ player_to_conn = [p \in {1, 2} |-> p]
      /\ player_to_zone = [p \in {1, 2} |-> arena.zone[p]]
      /\ next_player_id = 3
      /\ authenticated_conns = EmptyMap
      /\ player_account_ids = EmptyMap
      /\ db = Database_new
      /\ market = Market_new
      /\ quest_trackers = [p \in {1, 2} |-> QuestTracker_new]
      /\ last_save_time = 0
      /\ next_conn_id = 3
      /\ now = 0
      /\ player_combat_stats = [p \in {1, 2} |-> create_default_combat_stats]
      /\ player_weapon_cooldowns = [p \in {1, 2} |-> EmptyMap]
      /\ player_death_times = [p \in {1, 2} |-> NoTime]
      /\ zone_projectiles = [z \in ZoneIds |-> << >>]
      /\ next_projectile_id = 1
      /\ npcs = EmptyMap
      /\ died_at = EmptyMap
      /\ damaged = {}
      /\ mining_frames = EmptyMap
      /\ mining_since = EmptyMap
      /\ player_equipment = [p \in DOMAIN player_to_zone |-> PlayerEquipment_new]
      /\ net = Net_new
      /\ respawn_queue = << >>
      /\ next_npc_id = Cardinality(DOMAIN npcs) + 1
      /\ quest_completions = CompletedOnce(quest_trackers)
      /\ crafting_queues = [p \in DOMAIN player_to_zone |-> << >>]
      /\ player_progression =
            [p \in DOMAIN player_to_zone |-> PlayerProgression_new]
      /\ resource_nodes = SpawnedNodes

\* The directions of the inputs of the movement runs: full speed towards the
\* right edge, or towards the left edge.
MoveDirections == {1, 0 - 1}

\* The inputs the client of the player may send next: the sequence number is
\* one more than that of its last input that the server kept, and the client
\* turns only with its first input after a tick or with an input it sends to
\* a full buffer.
MoveInputs(player) ==
    LET held == player.input_buffer
        last == IF held = << >> THEN player.last_processed_seq
                ELSE held[Len(held)][3]
        turns == held = << >> \/ Len(held) = MAX_INPUT_BUFFER_SIZE
    IN  {<<d, d, last + 1>> : d \in
            {e \in MoveDirections : turns \/ e = held[Len(held)][1]}}

\* A client sends an input, at most MaxBuffered of them between two ticks.
MoveInput ==
    /\ \E conn_id \in DOMAIN conn_to_player :
         /\ has_player(Self, conn_to_player[conn_id])
         /\ Len(get_player(Self, conn_to_player[conn_id]).input_buffer)
               < MaxBuffered
         /\ \E input \in MoveInputs(get_player(Self, conn_to_player[conn_id])) :
              Becomes(handle_input(Self, conn_id, input))
    /\ UNCHANGED <<next_conn_id, now>>

\* Zones the clients of the movement runs ask to be transferred to: the four
\* zones and one that does not exist.
MoveTargets == ZoneIds \cup {"nowhere"}

MoveTransfer ==
    /\ \E conn_id \in connections, target_zone_id \in MoveTargets,
          draw \in SpawnDraws :
         Becomes(handle_zone_transfer(Self, conn_id, target_zone_id, draw))
    /\ UNCHANGED <<next_conn_id, now>>

\* The client of player 2 goes away.
MoveDisconnect ==
    /\ Becomes(handle_disconnect(Self, 2))
    /\ UNCHANGED <<next_conn_id, now>>

MoveTick ==
    /\ now < MaxMoveTicks * TICK_INTERVAL_MS
    /\ \E zone_ids \in ZoneOrders, draw \in SpawnDraws :
         /\ now' = now + TICK_INTERVAL_MS
         /\ BecomesAt(game_tick(Self, zone_ids, draw, now + TICK_INTERVAL_MS),
                      now + TICK_INTERVAL_MS)
    /\ UNCHANGED next_conn_id

NextMove ==
    \/ MoveInput
    \/ MoveTransfer
    \/ MoveDisconnect
    \/ MoveTick

SpecMove == InitMove /\ [][NextMove]_vars

\* ---------------------------------------------------------- the input runs

MaxInputTicks == 2     \* runs of the loop in one input run

\* The input runs start as the movement runs do.  The client of player 1
\* sends inputs until it has sent one to a full buffer; the client of player
\* 2 sends one input between two ticks.
FloodInput ==
    /\ \E conn_id \in DOMAIN conn_to_player :
         /\ has_player(Self, conn_to_player[conn_id])
         /\ conn_id # 1 =>
               get_player(Self, conn_to_player[conn_id]).input_buffer = << >>
         /\ \E input \in MoveInputs(get_player(Self, conn_to_player[conn_id])) :
              Becomes(handle_input(Self, conn_id, input))
    /\ UNCHANGED <<next_conn_id, now>>

InputTick ==
    /\ now < MaxInputTicks * TICK_INTERVAL_MS
    /\ now' = now + TICK_INTERVAL_MS
    /\ BecomesAt(game_tick(Self, CombatZoneOrder, "centre",
                           now + TICK_INTERVAL_MS),
                 now + TICK_INTERVAL_MS)
    /\ UNCHANGED next_conn_id

NextInput ==
    \/ FloodInput
    \/ InputTick

SpecInput == InitMove /\ [][NextInput]_vars

\* ------------------------------------------------------- the crafting runs

\* The server times, in ms, of the runs of the loop the crafting runs take.
\* The loop runs every TICK_INTERVAL_MS: the 57 runs between the first and
\* the second of these find no input, and no job of the recipe is due before
\* the third.
CraftTickTimes ==
    {TICK_INTERVAL_MS, 59 * TICK_INTERVAL_MS, 60 * TICK_INTERVAL_MS,
     61 * TICK_INTERVAL_MS}

\* Player 1 holds iron and stands at the centre of the default zone or 20
\* units from its right edge; player 2 holds nothing and stands at the centre.
CraftSpots == {0, 2480}
CraftIron == {100, 25}

InitCraft ==
    \E spot \in CraftSpots, iron \in CraftIron :
      /\ zones = [z \in ZoneIds |->
                    IF z # DEFAULT_ZONE_ID THEN EmptyMap
                    ELSE [p \in {1, 2} |->
                            IF p = 1
                            THEN [Player_new(spot, 0) EXCEPT
                                     !.inventory.items["iron"] = iron]
                            ELSE Player_new(0, 0)]]
      /\ connections = {1, 2}
      /\ conn_to_player = [c \in {1, 2} |-> c]
      /\ player_to_conn = [p \in {1, 2} |-> p]
      /\ player_to_zone = [p \in {1, 2} |-> DEFAULT_ZONE_ID]
      /\ next_player_id = 3
      /\ authenticated_conns = EmptyMap
      /\ player_account_ids = EmptyMap
      /\ db = Database_new
      /\ market = Market_new
      /\ quest_trackers = [p \in {1, 2} |-> QuestTracker_new]
      /\ last_save_time = 0
      /\ next_conn_id = 3
      /\ now = 0
      /\ player_combat_stats = [p \in {1, 2} |-> create_default_combat_stats]
      /\ player_weapon_cooldowns = [p \in {1, 2} |-> EmptyMap]
      /\ player_death_times = [p \in {1, 2} |-> NoTime]
      /\ zone_projectiles = [z \in ZoneIds |-> << >>]
      /\ next_projectile_id = 1
      /\ npcs = EmptyMap
      /\ died_at = EmptyMap
      /\ damaged = {}
      /\ mining_frames = EmptyMap
      /\ mining_since = EmptyMap
      /\ player_equipment = [p \in {1, 2} |-> PlayerEquipment_new]
      /\ net = Net_new
      /\ respawn_queue = << >>
      /\ next_npc_id = Cardinality(DOMAIN npcs) + 1
      /\ quest_completions = CompletedOnce(quest_trackers)
      /\ crafting_queues = [p \in {1, 2} |-> << >>]
      /\ player_progression = [p \in {1, 2} |-> PlayerProgression_new]
      /\ resource_nodes = SpawnedNodes

\* The recipes the clients ask for: one of the table and one that is not.
CraftRecipes == {"iron_plate", "nonexistent"}

\* A client asks for a craft; the server reads the clock at the time of the
\* last tick.
CraftStart ==
    /\ \E conn_id \in connections, recipe_id \in CraftRecipes :
         Becomes(handle_craft_start(Self, conn_id, recipe_id, now))
    /\ UNCHANGED <<next_conn_id, now>>

\* The client of player 1 sends one input, towards the right edge, between
\* two ticks.
CraftInput ==
    /\ has_player(Self, 1)
    /\ get_player(Self, 1).input_buffer = << >>
    /\ Becomes(handle_input(Self, 1,
                 <<1, 1, get_player(Self, 1).last_processed_seq + 1>>))
    /\ UNCHANGED <<next_conn_id, now>>

CraftTick ==
    \E time \in CraftTickTimes, zone_ids \in ZoneOrders, draw \in SpawnDraws :
      /\ now < time
      /\ \A t \in CraftTickTimes : now < t => time <= t
      /\ time - now > TICK_INTERVAL_MS =>
            \A p \in DOMAIN player_to_zone :
                has_player(Self, p) =>
                    get_player(Self, p).input_buffer = << >>
      /\ now' = time
      /\ BecomesAt(game_tick(Self, zone_ids, draw, time), time)
      /\ UNCHANGED next_conn_id

NextCraft ==
    \/ CraftStart
    \/ CraftInput
    \/ CraftTick

SpecCraft == InitCraft /\ [][NextCraft]_vars

\* ---------------------------------------------------- the progression runs

MaxXpAwards == 3     \* awards of XP in one run

\* Level and XP of the player saved for account 1: rows that a save of a
\* player who is not in the middle of a level can hold.
XpRows == {<<1, 0>>, <<2, 0>>, <<2, 390>>, <<49, 124900>>, <<50, 0>>}

\* odyssey.db as the server finds it: no player is saved, or player 1 is
\* saved as the player of account 1 with one of the rows above.
XpDatabases ==
    {[accounts |-> {1}, players |-> EmptyMap]}
    \cup {[accounts |-> {1},
           players |-> [k \in {1} |->
                           [SavedRow EXCEPT !.level = row[1], !.xp = row[2]]]] :
          row \in XpRows}

\* GameServer::new
InitXp ==
    /\ zones = create_sol_proxima
    /\ connections = {}
    /\ conn_to_player = EmptyMap
    /\ player_to_conn = EmptyMap
    /\ player_to_zone = EmptyMap
    /\ db \in XpDatabases
    /\ next_player_id = db_next_player_id(db)
    /\ authenticated_conns = EmptyMap
    /\ player_account_ids = EmptyMap
    /\ market = Market_new
    /\ quest_trackers = EmptyMap
    /\ last_save_time = 0
    /\ next_conn_id = 1
    /\ now = 0
    /\ player_combat_stats = EmptyMap
    /\ player_weapon_cooldowns = EmptyMap
    /\ player_death_times = EmptyMap
    /\ zone_projectiles = [z \in ZoneIds |-> << >>]
    /\ next_projectile_id = 1
    /\ npcs = EmptyMap
    /\ died_at = EmptyMap
    /\ damaged = {}
    /\ mining_frames = EmptyMap
    /\ mining_since = EmptyMap
    /\ player_equipment = EmptyMap
    /\ net = Net_new
    /\ respawn_queue = << >>
    /\ next_npc_id = Cardinality(DOMAIN npcs) + 1
    /\ quest_completions = CompletedOnce(quest_trackers)
    /\ crafting_queues = EmptyMap
    /\ player_progression = EmptyMap
    /\ resource_nodes = SpawnedNodes

\* The amounts of XP the server awards: a finished craft, a kill, and the XP
\* rewards of three quests (first_steps, pirate_hunter, fleet_commander).
XpAwards == {XP_REWARD_CRAFTING, XP_REWARD_COMBAT_KILL, 100, 600, 3000}

\* A tick of the loop awards XP to a player.
XpAward ==
    /\ now < MaxXpAwards * TICK_INTERVAL_MS
    /\ \E player_id \in DOMAIN player_progression, amount \in XpAwards :
         /\ now' = now + TICK_INTERVAL_MS
         /\ BecomesAt(award_xp(Self, player_id, amount),
                      now + TICK_INTERVAL_MS)
    /\ UNCHANGED next_conn_id

NextXp ==
    \/ AddConnection
    \/ AuthLogin
    \/ Hello
    \/ Disconnect
    \/ XpAward

SpecXp == InitXp /\ [][NextXp]_vars

\* ----------------------------------------------------------- the quest runs

MaxQuestEvents == 4     \* game events in one run

\* Player 1 is new, or is at level 3 with the first quest completed; player 2
\* is new.
QuestStarts ==
    {[progression |-> PlayerProgression_new, completed_quests |-> {}],
     [progression |-> [level |-> 3, xp |-> 0, skill_points |-> 2,
                       next_level_xp |-> xp_for_next_level(3)],
      completed_quests |-> {"first_steps"}]}

InitQuest ==
    \E start \in QuestStarts :
      /\ zones = [z \in ZoneIds |->
                    IF z # DEFAULT_ZONE_ID THEN EmptyMap
                    ELSE [p \in {1, 2} |-> Player_new(0, 0)]]
      /\ connections = {1, 2}
      /\ conn_to_player = [c \in {1, 2} |-> c]
      /\ player_to_conn = [p \in {1, 2} |-> p]
      /\ player_to_zone = [p \in {1, 2} |-> DEFAULT_ZONE_ID]
      /\ next_player_id = 3
      /\ authenticated_conns = EmptyMap
      /\ player_account_ids = EmptyMap
      /\ db = Database_new
      /\ market = Market_new
      /\ quest_trackers =
             [p \in {1, 2} |->
                 IF p = 1
                 THEN [QuestTracker_new EXCEPT
                          !.completed_quests = start.completed_quests]
                 ELSE QuestTracker_new]
      /\ last_save_time = 0
      /\ next_conn_id = 3
      /\ now = 0
      /\ player_combat_stats = [p \in {1, 2} |-> create_default_combat_stats]
      /\ player_weapon_cooldowns = [p \in {1, 2} |-> EmptyMap]
      /\ player_death_times = [p \in {1, 2} |-> NoTime]
      /\ zone_projectiles = [z \in ZoneIds |-> << >>]
      /\ next_projectile_id = 1
      /\ npcs = EmptyMap
      /\ died_at = EmptyMap
      /\ damaged = {}
      /\ mining_frames = EmptyMap
      /\ mining_since = EmptyMap
      /\ player_equipment = [p \in {1, 2} |-> PlayerEquipment_new]
      /\ net = Net_new
      /\ respawn_queue = << >>
      /\ next_npc_id = Cardinality(DOMAIN npcs) + 1
      /\ quest_completions = CompletedOnce(quest_trackers)
      /\ crafting_queues = [p \in {1, 2} |-> << >>]
      /\ player_progression =
             [p \in {1, 2} |->
                 IF p = 1 THEN start.progression ELSE PlayerProgression_new]
      /\ resource_nodes = SpawnedNodes

\* The quests the clients ask for: five of the database and one that is not.
QuestIds ==
    {"first_steps", "crafting_basics", "market_trader", "system_explorer",
     "daily_mining", "nonexistent"}

\* The events of the game the quests hear of: the objective type, the target
\* and the amount.
QuestEvents ==
    {<<"Mine", "iron", 7>>, <<"Mine", "iron", 60>>,
     <<"Craft", "iron_plate", 1>>, <<"Sell", "iron", 5>>,
     <<"Visit", "proxima_1", 1>>, <<"Visit", "belt_1", 1>>,
     <<"Kill", "pirate_scout", 1>>}

QuestAccept ==
    /\ \E conn_id \in connections, quest_id \in QuestIds :
         Becomes(handle_quest_accept(Self, conn_id, quest_id))
    /\ UNCHANGED <<next_conn_id, now>>

QuestAbandon ==
    /\ \E conn_id \in connections, quest_id \in QuestIds :
         Becomes(handle_quest_abandon(Self, conn_id, quest_id))
    /\ UNCHANGED <<next_conn_id, now>>

\* A tick of the loop, or a handler, reports an event of a player.
QuestEvent ==
    /\ now < MaxQuestEvents * TICK_INTERVAL_MS
    /\ \E player_id \in DOMAIN quest_trackers, event \in QuestEvents :
         /\ now' = now + TICK_INTERVAL_MS
         /\ BecomesAt(update_quest_objectives(Self, player_id, event[1],
                                              event[2], event[3]),
                      now + TICK_INTERVAL_MS)
    /\ UNCHANGED next_conn_id

NextQuest ==
    \/ QuestAccept
    \/ QuestAbandon
    \/ QuestEvent

SpecQuest == InitQuest /\ [][NextQuest]_vars

\* ---------------------------------------------------------- the rejoin runs

\* GameServer::new; odyssey.db holds account 1 and player 1 saved as its
\* player.
InitRejoin ==
    /\ zones = create_sol_proxima
    /\ connections = {}
    /\ conn_to_player = EmptyMap
    /\ player_to_conn = EmptyMap
    /\ player_to_zone = EmptyMap
    /\ db = [accounts |-> {1}, players |-> [k \in {1} |-> SavedRow]]
    /\ next_player_id = db_next_player_id(db)
    /\ authenticated_conns = EmptyMap
    /\ player_account_ids = EmptyMap
    /\ market = Market_new
    /\ quest_trackers = EmptyMap
    /\ last_save_time = 0
    /\ next_conn_id = 1
    /\ now = 0
    /\ player_combat_stats = EmptyMap
    /\ player_weapon_cooldowns = EmptyMap
    /\ player_death_times = EmptyMap
    /\ zone_projectiles = [z \in ZoneIds |-> << >>]
    /\ next_projectile_id = 1
    /\ npcs = EmptyMap
    /\ died_at = EmptyMap
    /\ damaged = {}
    /\ mining_frames = EmptyMap
    /\ mining_since = EmptyMap
    /\ player_equipment = EmptyMap
    /\ net = Net_new
    /\ respawn_queue = << >>
    /\ next_npc_id = Cardinality(DOMAIN npcs) + 1
    /\ quest_completions = CompletedOnce(quest_trackers)
    /\ crafting_queues = EmptyMap
    /\ player_progression = EmptyMap
    /\ resource_nodes = SpawnedNodes

\* Connections come and go, log in and say HELLO, and their players accept
\* quests and hear of the events of the game.
NextRejoin ==
    \/ AddConnection
    \/ AuthLogin
    \/ Hello
    \/ Disconnect
    \/ QuestAccept
    \/ QuestEvent

SpecRejoin == InitRejoin /\ [][NextRejoin]_vars

\* ---------------------------------------- main: the channels and the loops

\* GameServer::add_connection
add_connection(self, conn_id) ==
    [self EXCEPT !.connections = @ \cup {conn_id},
                 !.net.registered = @ \cup {conn_id}]

\* The connections a handler has handed a WELCOME frame.
welcomed_by(self) ==
    {self.frames[i].to : i \in {k \in DOMAIN self.frames :
                                   self.frames[k].type_id = "WELCOME"}}

\* handle_raw_message, for the 0xFF marker, HELLO and INPUT_MSG; draw decides
\* the spawn point of a HELLO.
handle_raw_message(self, msg, draw) ==
    LET s0 == [self EXCEPT
                 !.net.early = IF msg.conn_id \in self.net.registered THEN @
                               ELSE @ \cup {msg.conn_id}]
    IN  IF msg.data = "0xFF"
        THEN [handle_disconnect(s0, msg.conn_id) EXCEPT
                 !.net.closed = @ \cup {msg.conn_id}]
        ELSE IF msg.data = "HELLO"
        THEN The({[s EXCEPT
                     !.net.helloed =
                         IF msg.conn_id \in DOMAIN s.conn_to_player
                            /\ msg.conn_id \notin DOMAIN s0.conn_to_player
                         THEN @ \cup {msg.conn_id} ELSE @,
                     !.net.welcomed = @ \cup welcomed_by(s)] :
                  s \in {handle_hello(s0, msg.conn_id, draw)}})
        ELSE handle_input(s0, msg.conn_id,
                          <<1, 1,
                            IF msg.conn_id \in DOMAIN s0.conn_to_player
                               /\ has_player(s0, s0.conn_to_player[msg.conn_id])
                            THEN get_player(s0, s0.conn_to_player[msg.conn_id])
                                    .last_processed_seq + 1
                            ELSE 1>>)

\* GameServer::drain_messages, from message i of the channel on
RECURSIVE drain_messages(_, _, _)
drain_messages(self, draw, i) ==
    IF i > Len(self.net.rx) THEN [self EXCEPT !.net.rx = << >>]
    ELSE The({drain_messages(s, draw, i + 1) :
              s \in {handle_raw_message(self, self.net.rx[i], draw)}})

\* The game loop registering the new connections: while let Ok(..) =
\* new_conn_rx.try_recv()
RECURSIVE register_connections(_, _)
register_connections(self, i) ==
    IF i > Len(self.net.new_conn_rx)
    THEN [self EXCEPT !.net.new_conn_rx = << >>]
    ELSE register_connections(add_connection(self, self.net.new_conn_rx[i]),
                              i + 1)

\* The game loop processing the disconnections: while let Ok(conn_id) =
\* disconnect_rx.try_recv()
RECURSIVE process_disconnections(_, _)
process_disconnections(self, i) ==
    IF i > Len(self.net.disconnect_rx)
    THEN [self EXCEPT !.net.disconnect_rx = << >>]
    ELSE The({process_disconnections(s, i + 1) :
              s \in {handle_disconnect(
                       [self EXCEPT
                          !.net.early =
                              IF self.net.disconnect_rx[i]
                                    \in self.net.registered
                              THEN @
                              ELSE @ \cup {self.net.disconnect_rx[i]}],
                       self.net.disconnect_rx[i])}})

\* GameServer::run_tick
run_tick(self, zone_ids, draw, server_time) ==
    The({game_tick(s, zone_ids, draw, server_time) :
         s \in {drain_messages(self, draw, 1)}})

\* ------------------------------------------------------ the network runs

MaxNetConns == 2      \* connections accepted in one run
MaxNetFrames == 2     \* frames the read task of a connection reads
MaxNetTicks == 2      \* runs of the game loop

InitNet ==
    /\ zones = create_sol_proxima
    /\ connections = {}
    /\ conn_to_player = EmptyMap
    /\ player_to_conn = EmptyMap
    /\ player_to_zone = EmptyMap
    /\ db = Database_new
    /\ next_player_id = 1
    /\ authenticated_conns = EmptyMap
    /\ player_account_ids = EmptyMap
    /\ market = Market_new
    /\ quest_trackers = EmptyMap
    /\ last_save_time = 0
    /\ next_conn_id = 1
    /\ now = 0
    /\ player_combat_stats = EmptyMap
    /\ player_weapon_cooldowns = EmptyMap
    /\ player_death_times = EmptyMap
    /\ zone_projectiles = [z \in ZoneIds |-> << >>]
    /\ next_projectile_id = 1
    /\ npcs = EmptyMap
    /\ died_at = EmptyMap
    /\ damaged = {}
    /\ mining_frames = EmptyMap
    /\ mining_since = EmptyMap
    /\ player_equipment = EmptyMap
    /\ net = Net_new
    /\ respawn_queue = << >>
    /\ next_npc_id = Cardinality(DOMAIN npcs) + 1
    /\ quest_completions = CompletedOnce(quest_trackers)
    /\ crafting_queues = EmptyMap
    /\ player_progression = EmptyMap
    /\ resource_nodes = SpawnedNodes

\* Only net and next_conn_id change.
NetOnly(n) ==
    /\ net' = n
    /\ UNCHANGED <<zones, connections, conn_to_player, player_to_conn,
                   player_to_zone, next_player_id, authenticated_conns,
                   player_account_ids, db, market, quest_trackers,
                   last_save_time, now, player_combat_stats,
                   player_weapon_cooldowns, player_death_times,
                   zone_projectiles, next_projectile_id, npcs, died_at,
                   damaged, resource_nodes, mining_frames, mining_since,
                   crafting_queues, player_progression, player_equipment,
                   respawn_queue, next_npc_id, quest_completions>>

\* The accept loop takes a connection: NEXT_CONN_ID.fetch_add(1), then the
\* WebSocket handshake, which fails or succeeds; after a handshake the sender
\* of the connection is sent to the game loop and handle_connection is
\* spawned with its two tasks.
NetAccept ==
    /\ next_conn_id <= MaxNetConns
    /\ next_conn_id' = next_conn_id + 1
    /\ \E handshake \in BOOLEAN :
         NetOnly(IF ~handshake THEN net
                 ELSE [net EXCEPT
                         !.new_conn_rx = Append(@, next_conn_id),
                         !.tasks = Insert(@, next_conn_id,
                                          [read |-> TRUE, write |-> TRUE,
                                           pc |-> "select", frames |-> 0])])

\* The frames of the clients of the runs.
NetFrames == {"HELLO", "INPUT_MSG"}

\* The read task of a connection reads a binary frame and sends it to the
\* game loop.
NetRead ==
    /\ \E conn_id \in DOMAIN net.tasks, data \in NetFrames :
         /\ net.tasks[conn_id].read
         /\ net.tasks[conn_id].frames < MaxNetFrames
         /\ NetOnly([net EXCEPT
                       !.rx = Append(@, [conn_id |-> conn_id, data |-> data]),
                       !.tasks[conn_id].frames = @ + 1])
    /\ UNCHANGED next_conn_id

\* The read task of a connection ends: a Close frame, an error or the end of
\* the stream.
NetReadEnd ==
    /\ \E conn_id \in DOMAIN net.tasks :
         /\ net.tasks[conn_id].read
         /\ NetOnly([net EXCEPT !.tasks[conn_id].read = FALSE])
    /\ UNCHANGED next_conn_id

\* The write task of a connection ends: the send of a frame the game loop
\* handed it fails, or the game loop has dropped the sender.
NetWriteEnd ==
    /\ \E conn_id \in DOMAIN net.tasks :
         /\ net.tasks[conn_id].write
         /\ \/ conn_id \in net.welcomed
            \/ conn_id \in net.registered /\ conn_id \notin connections
         /\ NetOnly([net EXCEPT !.tasks[conn_id].write = FALSE])
    /\ UNCHANGED next_conn_id

\* handle_connection, after the select of the two tasks: it sends the 0xFF
\* marker to the game loop.  The task that has not ended is not aborted.
NetSentinel ==
    /\ \E conn_id \in DOMAIN net.tasks :
         /\ net.tasks[conn_id].pc = "select"
         /\ ~net.tasks[conn_id].read \/ ~net.tasks[conn_id].write
         /\ NetOnly([net EXCEPT
                       !.rx = Append(@, [conn_id |-> conn_id,
                                         data |-> "0xFF"]),
                       !.tasks[conn_id].pc = "returned"])
    /\ UNCHANGED next_conn_id

\* The task main spawned for the connection, after handle_connection has
\* returned: disconnect_tx.send(conn_id).
NetSignal ==
    /\ \E conn_id \in DOMAIN net.tasks :
         /\ net.tasks[conn_id].pc = "returned"
         /\ NetOnly([net EXCEPT
                       !.disconnect_rx = Append(@, conn_id),
                       !.tasks[conn_id].pc = "done"])
    /\ UNCHANGED next_conn_id

\* The game loop, after interval.tick(): it registers the new connections.
LoopRegister ==
    /\ net.loop_pc = "select"
    /\ now < MaxNetTicks * TICK_INTERVAL_MS
    /\ Becomes([register_connections(Self, 1) EXCEPT
                   !.net.loop_pc = "disconnections"])
    /\ UNCHANGED <<next_conn_id, now>>

\* The game loop processes the disconnections.
LoopDisconnections ==
    /\ net.loop_pc = "disconnections"
    /\ Becomes([process_disconnections(Self, 1) EXCEPT
                   !.net.loop_pc = "run_tick"])
    /\ UNCHANGED <<next_conn_id, now>>

\* The order in which the zones are ticked and the draw of the spawn points
\* in the network runs.
NetZoneOrders ==
    {<<"uurf-orbit", "uurf-hub", "uurf-surface", "asteroid-belt-alpha">>}
NetDraws == {CHOOSE draw \in SpawnDraws : TRUE}

\* The game loop drains the messages and runs the tick.
LoopRunTick ==
    /\ net.loop_pc = "run_tick"
    /\ \E zone_ids \in NetZoneOrders, draw \in NetDraws :
         /\ now' = now + TICK_INTERVAL_MS
         /\ BecomesAt([run_tick(Self, zone_ids, draw, now + TICK_INTERVAL_MS)
                          EXCEPT !.net.loop_pc = "select"],
                      now + TICK_INTERVAL_MS)
    /\ UNCHANGED next_conn_id

NextNet ==
    \/ NetAccept
    \/ NetRead
    \/ NetReadEnd
    \/ NetWriteEnd
    \/ NetSentinel
    \/ NetSignal
    \/ LoopRegister
    \/ LoopDisconnections
    \/ LoopRunTick

SpecNet == InitNet /\ [][NextNet]_vars

\* ------------------------------------------------------- the equipment runs

MaxEquipOrders == 2     \* orders registered in one run of the equipment

\* Player 1 holds an iron plate, a sheet of carbon fiber and iron up to the
\* capacity of the inventory, or one unit less; player 2 holds 20 iron.
EquipIron == {INVENTORY_CAPACITY - 2, INVENTORY_CAPACITY - 3}

InitEquip ==
    \E iron \in EquipIron :
      /\ zones = [z \in ZoneIds |->
                    IF z # DEFAULT_ZONE_ID THEN EmptyMap
                    ELSE [p \in {1, 2} |->
                            IF p = 1
                            THEN [Player_new(0, 0) EXCEPT
                                     !.inventory.items["iron"] = iron,
                                     !.inventory.items["iron_plate"] = 1,
                                     !.inventory.items["carbon_fiber"] = 1]
                            ELSE [Player_new(0, 0) EXCEPT
                                     !.inventory.items["iron"] = 20]]]
      /\ connections = {1, 2}
      /\ conn_to_player = [c \in {1, 2} |-> c]
      /\ player_to_conn = [p \in {1, 2} |-> p]
      /\ player_to_zone = [p \in {1, 2} |-> DEFAULT_ZONE_ID]
      /\ next_player_id = 3
      /\ authenticated_conns = EmptyMap
      /\ player_account_ids = EmptyMap
      /\ db = Database_new
      /\ market = Market_new
      /\ quest_trackers = [p \in {1, 2} |-> QuestTracker_new]
      /\ last_save_time = 0
      /\ next_conn_id = 3
      /\ now = 0
      /\ player_combat_stats = [p \in {1, 2} |-> create_default_combat_stats]
      /\ player_weapon_cooldowns = [p \in {1, 2} |-> EmptyMap]
      /\ player_death_times = [p \in {1, 2} |-> NoTime]
      /\ zone_projectiles = [z \in ZoneIds |-> << >>]
      /\ next_projectile_id = 1
      /\ npcs = EmptyMap
      /\ died_at = EmptyMap
      /\ damaged = {}
      /\ mining_frames = EmptyMap
      /\ mining_since = EmptyMap
      /\ player_equipment = [p \in {1, 2} |-> PlayerEquipment_new]
      /\ net = Net_new
      /\ respawn_queue = << >>
      /\ next_npc_id = Cardinality(DOMAIN npcs) + 1
      /\ quest_completions = CompletedOnce(quest_trackers)
      /\ crafting_queues = [p \in {1, 2} |-> << >>]
      /\ player_progression = [p \in {1, 2} |-> PlayerProgression_new]
      /\ resource_nodes = SpawnedNodes

\* The slots the clients name, from 0: armor, utility and one past the last.
EquipSlots == {5, 6, 7}

\* The orders of the runs: one unit of iron or of iron plate at 50 OMEN.
EquipOrders ==
    [side : {"buy", "sell"}, item_type : {"iron", "iron_plate"},
     quantity : {1}, price : {5000}]

EquipItem ==
    /\ \E conn_id \in connections, item_type \in ItemTypes :
         Becomes(handle_equip_item(Self, conn_id, item_type))
    /\ UNCHANGED <<next_conn_id, now>>

UnequipItem ==
    /\ \E conn_id \in connections, slot \in EquipSlots :
         Becomes(handle_unequip_item(Self, conn_id, slot))
    /\ UNCHANGED <<next_conn_id, now>>

EquipTrade ==
    /\ Len(market.orders_by_id) < MaxEquipOrders
    /\ \E conn_id \in connections, payload \in EquipOrders :
         Becomes(handle_market_place_order(Self, conn_id, payload).self)
    /\ UNCHANGED <<next_conn_id, now>>

NextEquip ==
    \/ EquipItem
    \/ UnequipItem
    \/ EquipTrade

SpecEquip == InitEquip /\ [][NextEquip]_vars

\* ------------------------------------------------------ claims: the market

MarketPlayers == {p \in DOMAIN player_to_zone : has_player(Self, p)}

Live(o) == o.status \in {"Open", "Partial"}

book_side(m, item_type, side) ==
    IF item_type \notin DOMAIN m.order_books THEN << >>
    ELSE IF side = "Buy" THEN m.order_books[item_type].buys
    ELSE m.order_books[item_type].sells

InBook(m, o) ==
    \E i \in DOMAIN book_side(m, o.item_type, o.side) :
        book_side(m, o.item_type, o.side)[i].order_id = o.order_id

BookEntries(m) ==
    UNION {{book_side(m, item, side)[i] : i \in DOMAIN book_side(m, item, side)} :
           item \in DOMAIN m.order_books, side \in {"Buy", "Sell"}}

\* C1: an order is in its item's order book if and only if its status is
\* Open or Partial, and every order in a book has filled < quantity.
C1_BookHoldsLiveOrders ==
    /\ \A n \in DOMAIN market.orders_by_id :
         InBook(market, market.orders_by_id[n]) <=> Live(market.orders_by_id[n])
    /\ \A e \in BookEntries(market) :
         /\ Live(e)
         /\ e.filled_quantity < e.quantity

\* C1 at work: a partly filled order rests in the book while a filled and a
\* cancelled order are registered outside it.
C1_Witness ==
    /\ \E n \in DOMAIN market.orders_by_id :
         /\ market.orders_by_id[n].status = "Partial"
         /\ InBook(market, market.orders_by_id[n])
    /\ \E n \in DOMAIN market.orders_by_id : market.orders_by_id[n].status = "Filled"
    /\ \E n \in DOMAIN market.orders_by_id : market.orders_by_id[n].status = "Cancelled"

\* What the claims expect of one placed order, from the trades reported.
TradeIds(trades) == DOMAIN trades
TradeTotal(t) == FMul(t.quantity, t.price_per_unit)
TradeFee(t) == (TradeTotal(t) * MARKET_FEE_PERCENT) \div 100

RECURSIVE FSum(_, _)
FSum(f, S) ==
    IF S = {} THEN 0
    ELSE LET x == CHOOSE y \in S : TRUE IN FAdd(f[x], FSum(f, S \ {x}))

ExpectedOmen(before, p, placer, side, payload, trades) ==
    LET sold == {i \in TradeIds(trades) : trades[i].seller_id = p}
        bought == {i \in TradeIds(trades) : trades[i].buyer_id = p}
        escrowed == IF p = placer /\ side = "Buy"
                    THEN FMul(payload.quantity, payload.price) ELSE 0
        proceeds == FSum([i \in sold |-> TradeTotal(trades[i]) - TradeFee(trades[i])], sold)
        refunds == IF p = placer /\ side = "Buy"
                   THEN FSum([i \in bought |->
                                FMul(trades[i].quantity,
                                     FSub(payload.price, trades[i].price_per_unit))],
                             bought)
                   ELSE 0
    IN  FAdd(FAdd(FSub(before, escrowed), proceeds), refunds)

ExpectedItems(before, p, placer, side, payload, trades) ==
    LET bought == {i \in TradeIds(trades) : trades[i].buyer_id = p}
        escrowed == IF p = placer /\ side = "Sell" THEN payload.quantity ELSE 0
    IN  before - escrowed + SumOver([i \in bought |-> trades[i].quantity], bought)

\* C2: for every executed trade the seller's OMEN grows by total - fee, with
\* total = fill x trade price and fee = floor(total x 0.05 x 100) / 100, the
\* buyer's inventory gains the filled items, and an incoming buy priced above
\* the trade price is refunded the difference on the filled quantity.
C2_TradesAreSettled ==
    \A conn_id \in connections, payload \in OrderRequests :
        LET r == handle_market_place_order(Self, conn_id, payload)
            placer == conn_to_player[conn_id]
            side == parse_side(payload.side)
        IN  r.reply.success =>
              \A p \in MarketPlayers :
                LET before == get_player(Self, p).inventory
                    after == get_player(r.self, p).inventory
                IN  /\ after.omen_balance =
                         ExpectedOmen(before.omen_balance, p, placer, side,
                                      payload, r.reply.trades)
                    /\ after.items[payload.item_type] =
                         ExpectedItems(before.items[payload.item_type], p, placer,
                                       side, payload, r.reply.trades)

\* The resting order a trade was made with, as it stood before the request.
RestingOf(resting, side, t) ==
    LET id == IF side = "Buy" THEN t.sell_order_id ELSE t.buy_order_id
    IN  resting[CHOOSE i \in DOMAIN resting : resting[i].order_id = id]

Crosses(side, price, o) ==
    /\ Live(o)
    /\ IF side = "Buy" THEN FLe(o.price_per_unit, price)
       ELSE FGe(o.price_per_unit, price)

\* a has priority over b among the orders resting against an incoming order
\* of the given side: a better price, or the same price and an earlier time
Before(side, a, b) ==
    \/ IF side = "Buy" THEN FLt(a.price_per_unit, b.price_per_unit)
       ELSE FGt(a.price_per_unit, b.price_per_unit)
    \/ /\ a.price_per_unit = b.price_per_unit
       /\ a.created_at < b.created_at

FilledBefore(trades, i) ==
    SumOver([j \in 1..(i - 1) |-> trades[j].quantity], 1..(i - 1))

\* C3: an incoming order takes the resting orders it crosses in book order
\* (best price first, earliest created_at first at equal price), each fill is
\* for min(incoming remaining, resting remaining) units, and each fill
\* executes at the resting order's price.
C3_PriceTimePriority ==
    \A conn_id \in connections, payload \in OrderRequests :
        LET r == handle_market_place_order(Self, conn_id, payload)
            side == parse_side(payload.side)
            resting == book_side(market, payload.item_type,
                                 IF side = "Buy" THEN "Sell" ELSE "Buy")
            trades == r.reply.trades
            taken == {RestingOf(resting, side, trades[i]).order_id : i \in DOMAIN trades}
            filled == SumOver([i \in DOMAIN trades |-> trades[i].quantity], DOMAIN trades)
        IN  r.reply.success =>
              /\ \A i \in DOMAIN trades :
                   LET o == RestingOf(resting, side, trades[i])
                   IN  /\ Crosses(side, payload.price, o)
                       /\ trades[i].quantity =
                            Min(payload.quantity - FilledBefore(trades, i),
                                o.quantity - o.filled_quantity)
                       /\ trades[i].price_per_unit = o.price_per_unit
              /\ \A i, j \in DOMAIN trades :
                   i < j => ~Before(side, RestingOf(resting, side, trades[j]),
                                    RestingOf(resting, side, trades[i]))
              /\ \A k \in DOMAIN resting :
                   (Crosses(side, payload.price, resting[k])
                      /\ resting[k].order_id \notin taken) =>
                     /\ filled = payload.quantity
                     /\ \A i \in DOMAIN trades :
                          ~Before(side, resting[k], RestingOf(resting, side, trades[i]))

\* C4: cancelling an Open or Partial order returns the escrowed residual
\* exactly: the unfilled quantity of a sell to the owner's items, remaining x
\* price of a buy to the owner's OMEN, and nothing else of the owner changes.
C4_CancelReturnsEscrow ==
    \A conn_id \in connections, order_id \in DOMAIN market.orders_by_id :
        LET r == handle_market_cancel_order(Self, conn_id, order_id)
            o == market.orders_by_id[order_id]
            remaining == o.quantity - o.filled_quantity
            before == get_player(Self, o.player_id).inventory
            after == get_player(r.self, o.player_id).inventory
        IN  r.reply.success =>
              IF o.side = "Sell"
              THEN /\ after.items[o.item_type] = before.items[o.item_type] + remaining
                   /\ after.omen_balance = before.omen_balance
              ELSE /\ after.items = before.items
                   /\ after.omen_balance =
                        FAdd(before.omen_balance, FMul(remaining, o.price_per_unit))

\* The requests C5 names: quantity 0, a non-positive price, a sell of more
\* items than the player holds, a buy that costs more OMEN than the player has.
InvalidPlace(payload, inventory) ==
    \/ payload.quantity = 0
    \/ FLe(payload.price, 0)
    \/ /\ payload.side = "sell"
       /\ inventory.items[payload.item_type] < payload.quantity
    \/ /\ payload.side = "buy"
       /\ FLt(inventory.omen_balance, FMul(payload.quantity, payload.price))

\* C5: a place request with quantity 0, a non-positive price, insufficient
\* items (sell) or insufficient OMEN (buy) is answered with an error string
\* and leaves inventories, balances, the order registry and the order books
\* as they were.
C5_InvalidPlaceRefused ==
    \A conn_id \in connections, payload \in OrderRequests :
        (payload.side \in {"buy", "sell"}
           /\ InvalidPlace(payload, get_player(Self, conn_to_player[conn_id]).inventory)) =>
          LET r == handle_market_place_order(Self, conn_id, payload)
          IN  /\ r.sent
              /\ ~r.reply.success
              /\ r.reply.error # NoneVal
              /\ r.self = Self

\* C5 at work: with orders resting, a buy the player cannot pay for, a request
\* for 0 units and a request at price 0 are each refused.
C5_Witness ==
    /\ market.orders_by_id # << >>
    /\ Len(market.orders_by_id) < MaxOrders
    /\ \E conn_id \in connections, payload \in OrderRequests :
         /\ payload.side = "buy" /\ payload.quantity > 0 /\ FGt(payload.price, 0)
         /\ FLt(get_player(Self, conn_to_player[conn_id]).inventory.omen_balance,
                FMul(payload.quantity, payload.price))
         /\ handle_market_place_order(Self, conn_id, payload).reply.error = "Insufficient OMEN"
    /\ \E conn_id \in connections, payload \in OrderRequests :
         /\ payload.quantity = 0
         /\ handle_market_place_order(Self, conn_id, payload).reply.error
              = "Quantity must be a positive integer"
    /\ \E conn_id \in connections, payload \in OrderRequests :
         /\ payload.quantity > 0 /\ payload.price = 0
         /\ handle_market_place_order(Self, conn_id, payload).reply.error
              = "Price must be positive"

\* C6: a cancel request by a player who did not place the order, or for an
\* order that is Filled or Cancelled, is refused with an error and changes no
\* inventory, order status or book.
C6_CancelRefused ==
    \A conn_id \in connections, order_id \in DOMAIN market.orders_by_id :
        LET o == market.orders_by_id[order_id]
        IN  (o.player_id # conn_to_player[conn_id]
               \/ o.status \in {"Filled", "Cancelled"}) =>
              LET r == handle_market_cancel_order(Self, conn_id, order_id)
              IN  /\ r.sent
                  /\ ~r.reply.success
                  /\ r.reply.error # NoneVal
                  /\ r.self = Self

\* C6 at work: a filled and a cancelled order are registered, their owners'
\* cancel requests are refused for the status, and another player's request
\* to cancel a live order is refused for the owner.
C6_Witness ==
    /\ \E n \in DOMAIN market.orders_by_id, conn_id \in connections :
         /\ market.orders_by_id[n].status = "Filled"
         /\ conn_to_player[conn_id] = market.orders_by_id[n].player_id
         /\ ~handle_market_cancel_order(Self, conn_id, n).reply.success
    /\ \E n \in DOMAIN market.orders_by_id, conn_id \in connections :
         /\ market.orders_by_id[n].status = "Cancelled"
         /\ conn_to_player[conn_id] = market.orders_by_id[n].player_id
         /\ ~handle_market_cancel_order(Self, conn_id, n).reply.success
    /\ \E n \in DOMAIN market.orders_by_id, conn_id \in connections :
         /\ Live(market.orders_by_id[n])
         /\ conn_to_player[conn_id] # market.orders_by_id[n].player_id
         /\ handle_market_cancel_order(Self, conn_id, n).reply.error
              = "Order does not belong to this player"

\* The levels a snapshot is to show for one side of a book.
ExpectedLevels(orders) ==
    LET live == {i \in DOMAIN orders : Live(orders[i])}
    IN  {[price_per_unit |-> orders[i].price_per_unit,
          total_quantity |->
              LET at == {j \in live : orders[j].price_per_unit = orders[i].price_per_unit}
              IN  SumOver([j \in at |-> orders[j].quantity - orders[j].filled_quantity], at),
          order_count |->
              Cardinality({j \in live : orders[j].price_per_unit = orders[i].price_per_unit})]
         : i \in live}

\* C7: the snapshot of an item's book aggregates the resting orders by price
\* level into {price, total remaining quantity, order count}, lists buy
\* levels in descending and sell levels in ascending price order, and leaves
\* out filled and cancelled orders.
C7_SnapshotLevels ==
    \A item_type \in ItemTypes :
        LET snapshot == get_order_book(market, item_type)
        IN  /\ {snapshot.buys[i] : i \in DOMAIN snapshot.buys}
                 = ExpectedLevels(book_side(market, item_type, "Buy"))
            /\ {snapshot.sells[i] : i \in DOMAIN snapshot.sells}
                 = ExpectedLevels(book_side(market, item_type, "Sell"))
            /\ \A i, j \in DOMAIN snapshot.buys :
                 i < j => total_cmp_less(snapshot.buys[j].price_per_unit,
                                         snapshot.buys[i].price_per_unit)
            /\ \A i, j \in DOMAIN snapshot.sells :
                 i < j => total_cmp_less(snapshot.sells[i].price_per_unit,
                                         snapshot.sells[j].price_per_unit)

\* C8: every player's inventory holds at most its capacity of items and an
\* OMEN balance that is not negative.
C8_InventoryBounds ==
    \A p \in MarketPlayers :
        /\ Inventory_total(get_player(Self, p).inventory) <= INVENTORY_CAPACITY
        /\ FGe(get_player(Self, p).inventory.omen_balance, 0)

\* ------------------------------------------------- claims: the connections

\* C9: while connections are live the conn_id <-> player_id mapping is
\* one-to-one: no two connections are mapped to the same player id, and
\* player_to_conn is the exact inverse of conn_to_player, after any sequence
\* of login, HELLO and disconnect events.
C9_ConnPlayerOneToOne ==
    /\ \A c1 \in DOMAIN conn_to_player, c2 \in DOMAIN conn_to_player :
         conn_to_player[c1] = conn_to_player[c2] => c1 = c2
    /\ \A c \in DOMAIN conn_to_player :
         /\ conn_to_player[c] \in DOMAIN player_to_conn
         /\ player_to_conn[conn_to_player[c]] = c
    /\ \A p \in DOMAIN player_to_conn :
         /\ player_to_conn[p] \in DOMAIN conn_to_player
         /\ conn_to_player[player_to_conn[p]] = p

\* The players the loop knows: those a connection is mapped to, those
\* player_to_zone has an entry for, and those in some zone's player set.
KnownPlayers ==
    {conn_to_player[c] : c \in DOMAIN conn_to_player}
        \cup DOMAIN player_to_zone
        \cup UNION {DOMAIN zones[z] : z \in DOMAIN zones}

ZonesOf(player_id) == {z \in DOMAIN zones : player_id \in DOMAIN zones[z]}

\* C10: every player known to the loop is in exactly one zone's player set and
\* player_to_zone names that zone, after any sequence of HELLOs, explicit or
\* boundary transfers, disconnects and timeouts.
C10_PlayerInExactlyOneZone ==
    \A p \in KnownPlayers :
        /\ Cardinality(ZonesOf(p)) = 1
        /\ p \in DOMAIN player_to_zone
        /\ player_to_zone[p] \in ZonesOf(p)

\* --------------------------------------------------- claims: zone presence

PlayerIds == 1..MaxPlayerId

\* The events of the connections' runs that send frames, as the server each
\* leaves behind when it happens now.
PresenceEvents ==
    {handle_hello(Self, c, d) : c \in connections, d \in SpawnDraws}
      \cup {handle_zone_transfer(Self, c, z, d) :
              c \in connections, z \in TransferTargets, d \in SpawnDraws}
      \cup {handle_disconnect(Self, c) : c \in connections}
      \cup {game_tick(Self, o, d, now + TICK_INTERVAL_MS) :
              o \in ZoneOrders, d \in SpawnDraws}

\* p is in zone z, active and connected through the same connection, before
\* and after the event.
Observes(before, after, p, z) ==
    /\ p \in get_active_players(before, z) \cap get_active_players(after, z)
    /\ p \in DOMAIN before.player_to_conn /\ p \in DOMAIN after.player_to_conn
    /\ before.player_to_conn[p] = after.player_to_conn[p]
    /\ before.player_to_conn[p] \in before.connections \cap after.connections

Departs(before, after, q, z) ==
    q \in get_active_players(before, z) /\ q \notin get_active_players(after, z)

Arrives(before, after, q, z) ==
    q \notin get_active_players(before, z) /\ q \in get_active_players(after, z)

FrameCount(frames, to, type_id, id) ==
    Cardinality({i \in DOMAIN frames :
                   frames[i] = [to |-> to, type_id |-> type_id, id |-> id]})

InNoPlayerMap(self, p) ==
    /\ p \notin DOMAIN self.player_to_conn
    /\ p \notin DOMAIN self.player_to_zone
    /\ p \notin DOMAIN self.quest_trackers
    /\ p \notin DOMAIN self.player_account_ids

\* C12: when a connection's player disconnects, the player's record stays in
\* its zone and is marked disconnected; a game tick that runs once 60 s have
\* passed since the disconnect removes the player from the zones and from
\* every per-player map, and a game tick that runs before that leaves the
\* record in its zone.
C12_DisconnectThenTimeout ==
    /\ \A c \in DOMAIN conn_to_player, z \in ZoneIds :
         LET p == conn_to_player[c]
             after == handle_disconnect(Self, c)
         IN  p \in DOMAIN zones[z] =>
                /\ p \in DOMAIN after.zones[z]
                /\ after.zones[z][p].is_disconnected
                /\ after.zones[z][p].disconnect_time = now
    /\ \A delay \in TickDelays, o \in ZoneOrders, d \in SpawnDraws, z \in ZoneIds :
         \A p \in DOMAIN zones[z] :
            LET after == game_tick(Self, o, d, now + delay)
            IN  zones[z][p].is_disconnected =>
                   IF now + delay - zones[z][p].disconnect_time
                         >= DISCONNECT_TIMEOUT_MS
                   THEN /\ \A y \in ZoneIds : p \notin DOMAIN after.zones[y]
                        /\ InNoPlayerMap(after, p)
                   ELSE p \in DOMAIN after.zones[z]

\* ----------------------------------------------------- claims: persistence

\* The server after connection conn_id, logged in to an account, disconnects
\* and a new connection logs in to the same account and sends HELLO.
Reconnected(conn_id, draw) ==
    LET saved == handle_disconnect(Self, conn_id)
        accepted == [saved EXCEPT !.connections = @ \cup {next_conn_id}]
    IN  handle_hello(handle_auth_login(accepted, next_conn_id,
                                       authenticated_conns[conn_id], TRUE),
                     next_conn_id, draw)

\* C13: the player of a logged-in connection, saved when the connection
\* disconnects and loaded when a connection logged in to the same account
\* sends HELLO, comes back in the same zone at the same position with the
\* same OMEN balance and the same inventory.
C13_SaveLoadRoundTrip ==
    \A c \in (DOMAIN conn_to_player) \cap (DOMAIN authenticated_conns),
       d \in SpawnDraws :
        LET p == conn_to_player[c]
            after == Reconnected(c, d)
        IN  has_player(Self, p) =>
               /\ next_conn_id \in DOMAIN after.conn_to_player
               /\ has_player(after, after.conn_to_player[next_conn_id])
               /\ LET q == after.conn_to_player[next_conn_id]
                  IN  /\ after.player_to_zone[q] = player_to_zone[p]
                      /\ get_player(after, q).x = get_player(Self, p).x
                      /\ get_player(after, q).y = get_player(Self, p).y
                      /\ get_player(after, q).inventory
                            = get_player(Self, p).inventory

\* ---------------------------------------------------------- claims: combat

\* C14: whatever damage, regeneration ticks, respawns and restores from saved
\* rows a player went through, its hit points lie between 0 and max_hp and its
\* shield between 0 and max_shield.
C14_StatsInRange ==
    \A p \in DOMAIN player_combat_stats :
        /\ 0 <= player_combat_stats[p].hp
        /\ player_combat_stats[p].hp <= player_combat_stats[p].max_hp
        /\ 0 <= player_combat_stats[p].shield
        /\ player_combat_stats[p].shield <= player_combat_stats[p].max_shield

\* C14: a player was hit in this run and has no hit points left.
C14_Witness ==
    \E p \in DOMAIN player_combat_stats :
        /\ player_combat_stats[p].hp = 0
        /\ player_combat_stats[p].last_damage_time > CombatStart

\* C15: a respawn request of a dead player is granted exactly when 5 s or more
\* have passed since its hit points reached 0; a granted request leaves the
\* player with max_hp hit points and max_shield shield, and a refused one
\* leaves the server as it was.
C15_RespawnAfterDelay ==
    \A c \in DOMAIN conn_to_player, d \in SpawnDraws :
        LET p == conn_to_player[c]
            after == handle_respawn_request(Self, c, d)
        IN  (/\ has_player(Self, p)
             /\ p \in DOMAIN player_combat_stats
             /\ is_dead(player_combat_stats[p])
             /\ p \in DOMAIN died_at) =>
               IF now - died_at[p] >= RESPAWN_DELAY
               THEN /\ after.replies = <<"RESPAWN">>
                    /\ after.player_combat_stats[p].hp
                          = player_combat_stats[p].max_hp
                    /\ after.player_combat_stats[p].shield
                          = player_combat_stats[p].max_shield
               ELSE after = Self

\* The live players in a space zone with a slot whose last fire the server
\* holds, as pairs of the player's connection and the slot.
C16_FiredSlots ==
    {cs \in (DOMAIN conn_to_player) \X WeaponSlots :
        LET p == conn_to_player[cs[1]]
        IN  /\ has_player(Self, p)
            /\ zone_type(player_to_zone[p]) = "space"
            /\ p \in DOMAIN player_combat_stats
            /\ ~is_dead(player_combat_stats[p])
            /\ p \in DOMAIN player_weapon_cooldowns
            /\ cs[2] \in DOMAIN player_weapon_cooldowns[p]}

C17_Projectiles(self) ==
    UNION {{self.zone_projectiles[z][k] : k \in DOMAIN self.zone_projectiles[z]} :
           z \in ZoneIds}

\* C17: on a tick a projectile damages only targets it has not damaged before,
\* each once, and a projectile that does not pierce is gone from the zone
\* after the tick of a direct hit.
C17_OneHitPerTarget ==
    \A delay \in CombatDelays :
        LET after == game_tick(Self, CombatZoneOrder, "centre", now + delay)
        IN  \A i \in DOMAIN after.hits :
               LET hit == after.hits[i]
                   proj == CHOOSE q \in C17_Projectiles(Self) :
                              q.id = hit.projectile
                   config == get_weapon_config(proj.weapon_type)
               IN  /\ <<hit.projectile, hit.target>> \notin damaged
                   /\ \A j \in DOMAIN after.hits :
                         (j # i /\ after.hits[j].projectile = hit.projectile)
                            => after.hits[j].target # hit.target
                   /\ (hit.damage = config.damage /\ ~config.piercing)
                         => \A q \in C17_Projectiles(after) :
                               q.id # hit.projectile

\* The zones in which player 1 stands at (0, 0) and player 2 at (10, 0), both
\* with default stats, and nothing else flies, attacks or can be hit.
C18_Duels ==
    {z \in ZoneIds :
        /\ zone_type(z) = "space"
        /\ get_active_players(Self, z) = {1, 2}
        /\ zones[z][1].x = 0 /\ zones[z][1].y = 0
        /\ zones[z][2].x = 10 /\ zones[z][2].y = 0
        /\ {1, 2} \subseteq DOMAIN player_combat_stats
        /\ player_combat_stats[1] = create_default_combat_stats
        /\ player_combat_stats[2] = create_default_combat_stats
        /\ zone_projectiles[z] = << >>
        /\ npcs = EmptyMap
        /\ 1 \in DOMAIN player_to_conn
        /\ player_to_zone[1] = z}

\* C18: A stands at (0, 0) and B at (10, 0) in a space zone, both with default
\* stats; A fires the laser at (10, 0); after the next tick B has shield 42 and
\* 100 hit points.
C18_LaserDuel ==
    \A z \in C18_Duels :
        LET fired == handle_fire_weapon(Self, player_to_conn[1], 0, 10)
            after == game_tick(fired, CombatZoneOrder, "centre",
                               now + TICK_INTERVAL_MS)
        IN  fired.replies = <<NoneVal>> =>
               /\ after.player_combat_stats[2].shield = 42
               /\ after.player_combat_stats[2].hp = 100

C20_NodeAmounts ==
    \A z \in ZoneIds :
        \A k \in DOMAIN resource_nodes[z] :
            /\ 0 <= resource_nodes[z][k].current_amount
            /\ resource_nodes[z][k].current_amount
                  <= resource_nodes[z][k].total_amount
            /\ (resource_nodes[z][k].depleted_at # NoTime)
                  <=> (resource_nodes[z][k].current_amount = 0)

\* C20: a node that the players mined until nothing was left.
C20_Witness ==
    \E z \in ZoneIds :
        \E k \in DOMAIN resource_nodes[z] :
            /\ resource_nodes[z][k].current_amount = 0
            /\ resource_nodes[z][k].depleted_at > 0

\* The players whose turn in the mining of the next tick passes the checks of
\* node, range and inventory: they hold a node of their zone within range and
\* have room left.
C21_Miners(z) ==
    {p \in get_active_players(Self, z) :
        /\ zones[z][p].mining_node_id \in DOMAIN resource_nodes[z]
        /\ dist_sq(zones[z][p].x, zones[z][p].y,
                   resource_nodes[z][zones[z][p].mining_node_id].x,
                   resource_nodes[z][zones[z][p].mining_node_id].y)
              <= MINING_RANGE * MINING_RANGE
        /\ Inventory_total(zones[z][p].inventory) < INVENTORY_CAPACITY}

\* What is left in the node of miner p at p's turn: the miners before p have
\* each taken the rate, or what was left.
C21_Remaining(z, p) ==
    LET node == resource_nodes[z][zones[z][p].mining_node_id]
        before == {q \in C21_Miners(z) :
                      /\ q < p
                      /\ zones[z][q].mining_node_id = zones[z][p].mining_node_id}
        left == node.current_amount
                   - Cardinality(before) * BASE_MINING_RATE * node.quality
    IN  IF left < 0 THEN 0 ELSE left

\* C21: in every tick, the amount added to the inventory of a miner is the
\* least of the extraction rate (10 times the quality of the node), the amount
\* left in the node and the room left in the inventory.
C21_AmountAdded ==
    [][now' # now =>
        \A z \in ZoneIds :
            \A p \in C21_Miners(z) :
                /\ p \in DOMAIN zones'[z]
                /\ Inventory_total(zones'[z][p].inventory)
                      - Inventory_total(zones[z][p].inventory)
                   = Min(BASE_MINING_RATE
                            * resource_nodes[z][zones[z][p].mining_node_id].quality,
                         Min(C21_Remaining(z, p),
                             INVENTORY_CAPACITY
                                - Inventory_total(zones[z][p].inventory)))]_vars

\* C21: a miner whose last tick added only the room the inventory had left,
\* less than the rate and less than what the node held.
C21_Witness ==
    \E z \in ZoneIds :
        \E p \in DOMAIN zones[z] :
            /\ Inventory_total(zones[z][p].inventory) = INVENTORY_CAPACITY
            /\ \E k \in DOMAIN resource_nodes[z] :
                  /\ resource_nodes[z][k].current_amount > 0
                  /\ resource_nodes[z][k].current_amount
                        < resource_nodes[z][k].total_amount
            /\ now > 0

\* max(|ax - bx|, |ay - by|)
C22_Chebyshev(ax, ay, bx, by) ==
    LET dx == IF ax < bx THEN bx - ax ELSE ax - bx
        dy == IF ay < by THEN by - ay ELSE ay - by
    IN  IF dx < dy THEN dy ELSE dx

\* C22: a START_MINING request sets the player's mining_node_id if and only if
\* the node exists in the player's zone, holds more than 0, lies within
\* Chebyshev distance 100 of the player, the inventory is below capacity and
\* the player is not docked; otherwise the player is left as it was.
C22_StartMining ==
    \A conn_id \in DOMAIN conn_to_player, node_id \in NodeIds :
        LET p == conn_to_player[conn_id]
            z == player_to_zone[p]
            after == handle_start_mining(Self, conn_id, node_id)
            granted ==
                /\ node_id \in DOMAIN resource_nodes[z]
                /\ resource_nodes[z][node_id].current_amount > 0
                /\ C22_Chebyshev(zones[z][p].x, zones[z][p].y,
                                 resource_nodes[z][node_id].x,
                                 resource_nodes[z][node_id].y) <= MINING_RANGE
                /\ Inventory_total(zones[z][p].inventory) < INVENTORY_CAPACITY
                /\ ~zones[z][p].is_docked
        IN  has_player(Self, p) =>
                IF granted
                THEN after.zones[z][p].mining_node_id = node_id
                ELSE after.zones[z][p] = zones[z][p]

\* The players that 10 ticks ago, with an empty inventory, began to mine a
\* full node of quality 1 and total 100 on which they stand, and have not been
\* stopped by a request since: node k of zone z and such a player.
C23_Ran(z, k, p) ==
    /\ p \in DOMAIN zones[z]
    /\ k \in DOMAIN resource_nodes[z]
    /\ p \in DOMAIN mining_since
    /\ now = mining_since[p].time + 10 * TICK_INTERVAL_MS
    /\ mining_since[p].inventory_total = 0
    /\ mining_since[p].current_amount = 100
    /\ resource_nodes[z][k].quality = 1
    /\ resource_nodes[z][k].total_amount = 100
    /\ zones[z][p].x = resource_nodes[z][k].x
    /\ zones[z][p].y = resource_nodes[z][k].y
    /\ p \in DOMAIN player_to_conn

\* C23: a player with an empty inventory that starts mining a node of quality 1
\* and total 100 while standing on it has, after 10 ticks, 100 units in the
\* inventory and a node with nothing left, has been sent exactly 10
\* MINING_UPDATE frames and exactly one NODE_DEPLETED frame, and no longer
\* mines.
C23_TenTicks ==
    \A z \in ZoneIds :
        \A k \in DOMAIN resource_nodes[z], p \in DOMAIN zones[z] :
            C23_Ran(z, k, p) =>
                /\ resource_nodes[z][k].current_amount = 0
                /\ Inventory_total(zones[z][p].inventory) = 100
                /\ player_to_conn[p] \in DOMAIN mining_frames
                /\ mining_frames[player_to_conn[p]].updates
                      - mining_since[p].updates = 10
                /\ mining_frames[player_to_conn[p]].depleted
                      - mining_since[p].depleted = 1
                /\ zones[z][p].mining_node_id = NoNode

\* C23: the tenth tick of such a run has gone by.
C23_Witness ==
    \E z \in ZoneIds :
        \E k \in DOMAIN resource_nodes[z], p \in DOMAIN zones[z] :
            /\ C23_Ran(z, k, p)
            /\ resource_nodes[z][k].depleted_at = now

\* ----------------------------------------------------- claims: movement

\* C24: the input buffer of a player never holds more than 10 inputs, and
\* whatever it holds when an input arrives, the tick that runs next applies
\* that input, the one received last, and takes last_processed_seq from it.
C24_LatestInputApplied ==
    /\ \A z \in ZoneIds :
         \A p \in DOMAIN zones[z] :
            Len(zones[z][p].input_buffer) <= MAX_INPUT_BUFFER_SIZE
    /\ \A conn_id \in DOMAIN conn_to_player :
         LET p == conn_to_player[conn_id]
         IN  has_player(Self, p) =>
               \A input \in MoveInputs(get_player(Self, p)) :
                  LET ticked == game_tick(handle_input(Self, conn_id, input),
                                          CombatZoneOrder, "centre",
                                          now + TICK_INTERVAL_MS)
                  IN  /\ has_player(ticked, p)
                      /\ get_player(ticked, p).last_processed_seq = input[3]

\* The PLAYER_LEFT and PLAYER_JOINED frames among frames.
C25_PresenceFrames(frames) ==
    {i \in DOMAIN frames : frames[i].type_id \in {"PLAYER_LEFT", "PLAYER_JOINED"}}

\* C25: a ZONE_TRANSFER request moves the player only if the target zone is
\* listed in the connections of the player's zone; a request that names a zone
\* that is not listed there, one that does not exist included, leaves the
\* player in its zone where it is and sends no PLAYER_LEFT and no
\* PLAYER_JOINED frame.
C25_TransferOnlyToConnected ==
    \A conn_id \in DOMAIN conn_to_player, target_zone_id \in MoveTargets,
       draw \in SpawnDraws :
        LET p == conn_to_player[conn_id]
            z == player_to_zone[p]
            after == handle_zone_transfer(Self, conn_id, target_zone_id, draw)
        IN  has_player(Self, p) =>
              \/ InSeq(target_zone_id, zone_connections(z))
              \/ /\ after.player_to_zone = player_to_zone
                 /\ after.zones = zones
                 /\ C25_PresenceFrames(after.frames) = {}

\* C25: a player that shares its zone with a connected player is where one
\* request would move it to a connected zone, with frames to both, and another
\* names a zone that is not connected to its zone.
C25_Witness ==
    \E conn_id \in DOMAIN conn_to_player, draw \in SpawnDraws :
        LET p == conn_to_player[conn_id]
            z == player_to_zone[p]
        IN  /\ has_player(Self, p)
            /\ z # DEFAULT_ZONE_ID
            /\ get_active_players(Self, z) \ {p} # {}
            /\ \E far \in ZoneIds \ {z} : ~InSeq(far, zone_connections(z))
            /\ \E near \in ZoneIds :
                  LET after == handle_zone_transfer(Self, conn_id, near, draw)
                  IN  /\ after.player_to_zone[p] = near
                      /\ near # z
                      /\ C25_PresenceFrames(after.frames) # {}

\* Player p of zone z is connected and not docked, and the movement of the
\* tick that runs next leaves it outside the bounds of the zone.
C26_Leaves(z, p) ==
    /\ p \in DOMAIN zones[z]
    /\ ~zones[z][p].is_disconnected
    /\ ~zones[z][p].is_docked
    /\ is_out_of_bounds(z, move_player(zones[z][p]).x,
                        move_player(zones[z][p]).y)

\* C26: every connected player that is not docked and that the movement of a
\* tick leaves outside the bounds of its zone is, by the end of that tick, in
\* the first zone of the connections of its zone, within the bounds of that
\* zone and with no velocity.
C26_BoundaryTransfer ==
    \A zone_ids \in ZoneOrders, draw \in SpawnDraws, z \in ZoneIds :
        \A p \in DOMAIN zones[z] :
            C26_Leaves(z, p) =>
                LET after == game_tick(Self, zone_ids, draw,
                                       now + TICK_INTERVAL_MS)
                    target == zone_connections(z)[1]
                IN  /\ p \notin DOMAIN after.zones[z]
                    /\ p \in DOMAIN after.zones[target]
                    /\ after.player_to_zone[p] = target
                    /\ ~is_out_of_bounds(target, after.zones[target][p].x,
                                         after.zones[target][p].y)
                    /\ after.zones[target][p].vx = 0
                    /\ after.zones[target][p].vy = 0

\* -------------------------------------------------------- claims: crafting

\* The jobs of a queue that are in the Crafting state
C27_Crafting(queue) == {i \in DOMAIN queue : queue[i].status = "Crafting"}

\* The frames handle_craft_start sends for a request of connection conn_id
C27_Reply(conn_id, recipe_id) ==
    handle_craft_start(Self, conn_id, recipe_id, now).frames

\* C27: a player never has more than 3 jobs in the Crafting state.  A request
\* for a recipe of the table that is made while 3 jobs are active is answered
\* with one CRAFT_STATUS frame that says the queue is full, and leaves the
\* inventory and the queue as they are.  Before the first tick every job of
\* player 1 has taken 10 iron of the 100 (or 25) the player began with.
C27_QueueLimit ==
    /\ \A p \in DOMAIN crafting_queues :
          Cardinality(C27_Crafting(crafting_queues[p])) <= 3
    /\ \A conn_id \in DOMAIN conn_to_player :
          LET p == conn_to_player[conn_id]
          IN  (/\ p \in DOMAIN crafting_queues
               /\ has_player(Self, p)
               /\ active_count(crafting_queues[p]) = 3)
              => LET after == handle_craft_start(Self, conn_id, "iron_plate",
                                                 now)
                 IN  /\ get_player(after, p).inventory
                           = get_player(Self, p).inventory
                     /\ after.crafting_queues = crafting_queues
                     /\ after.frames
                           = <<[to |-> conn_id, type_id |-> "CRAFT_STATUS",
                                id |-> "Crafting queue full"]>>
    /\ (now = 0 /\ has_player(Self, 1))
          => get_player(Self, 1).inventory.items["iron"]
                + 10 * Len(crafting_queues[1]) \in CraftIron

\* C27 witness: at t=0 player 1, who began with 100 iron, has started three
\* iron_plate jobs and holds 70 iron, and a fourth request is refused.
C27_Witness ==
    /\ now = 0
    /\ has_player(Self, 1)
    /\ get_player(Self, 1).inventory.items["iron"] = 70
    /\ Len(crafting_queues[1]) = 3
    /\ \A i \in 1..3 : /\ crafting_queues[1][i].status = "Crafting"
                       /\ crafting_queues[1][i].start_time = 0
                       /\ crafting_queues[1][i].recipe_id = "iron_plate"
    /\ C27_Reply(1, "iron_plate")[1].id = "Crafting queue full"
    /\ handle_craft_start(Self, 1, "iron_plate", now).zones = zones

\* The jobs of a queue that are in the Crafting state and due at time
C28_Due(queue, time) ==
    {i \in DOMAIN queue : /\ queue[i].status = "Crafting"
                          /\ queue[i].end_time <= time}

\* C28: at every tick each job in the Crafting state whose end time is at or
\* before the server time of the tick leaves that state on the tick: the
\* queue is left with the jobs that are not yet due, unchanged and in their
\* order (the finished ones are pruned, none finishes early), and when the
\* outputs fit the inventory has one more iron_plate for each job that was due.
C28_DueJobsFinish ==
    [][now' # now =>
         \A p \in DOMAIN crafting_queues :
            /\ p \in DOMAIN crafting_queues'
            /\ crafting_queues'[p] =
                  SelectSeq(crafting_queues[p],
                            LAMBDA j : ~(j.status = "Crafting"
                                         /\ j.end_time <= now'))
            /\ (/\ has_player(Self, p)
                /\ Inventory_total(get_player(Self, p).inventory)
                      + Cardinality(C28_Due(crafting_queues[p], now'))
                      <= INVENTORY_CAPACITY)
               => \E z \in DOMAIN zones' :
                     /\ p \in DOMAIN zones'[z]
                     /\ zones'[z][p].inventory.items["iron_plate"] =
                           get_player(Self, p).inventory.items["iron_plate"]
                           + Cardinality(C28_Due(crafting_queues[p], now'))]_vars

\* ----------------------------------------------------- claims: progression

\* xp_to_next of the specification
C29_xp_to_next(level) == 100 * level + 50 * level * level

\* Level, XP and skill points after the level-ups that the accumulated XP
\* allows: one level for each threshold reached, the leftover carried on.
RECURSIVE C29_Raised(_)
C29_Raised(prog) ==
    IF prog.level < 50 /\ prog.xp >= C29_xp_to_next(prog.level)
    THEN C29_Raised([level |-> prog.level + 1,
                     xp |-> prog.xp - C29_xp_to_next(prog.level),
                     skill_points |-> prog.skill_points + 1])
    ELSE IF prog.level >= 50
    THEN [prog EXCEPT !.xp = 0]
    ELSE prog

\* C29: an award of XP to a player below level 50 leaves the level, the XP
\* and the skill points that follow from adding the amount and raising the
\* level once for each threshold xp_to_next(L) = 100 L + 50 L^2 reached, with
\* one LEVEL_UP payload for each level gained; no player is above level 50,
\* a player of level 50 has 0 XP, and a player below it has less XP than the
\* threshold of its level.
C29_LevelUps ==
    \A p \in DOMAIN player_progression :
       LET prog == player_progression[p]
       IN  /\ prog.level <= 50
           /\ prog.level = 50 => prog.xp = 0
           /\ prog.level < 50 => prog.xp < C29_xp_to_next(prog.level)
           /\ prog.level < 50 =>
                \A amount \in XpAwards :
                   LET r == add_xp(prog, amount)
                       expected == C29_Raised(
                           [level |-> prog.level, xp |-> prog.xp + amount,
                            skill_points |-> prog.skill_points])
                   IN  /\ r.prog.level = expected.level
                       /\ r.prog.xp = expected.xp
                       /\ r.prog.skill_points = expected.skill_points
                       /\ Len(r.level_ups) = expected.level - prog.level

\* ---------------------------------------------------------- claims: quests

\* All the objectives of an active quest have current = required.
C30_Saturated(progress) ==
    \A i \in DOMAIN progress.objectives :
        progress.objectives[i].current = progress.objectives[i].required

\* The completions of quest_id in a list of completions
C30_Completions(completions, quest_id) ==
    {i \in DOMAIN completions : completions[i].quest_id = quest_id}

\* The QUEST_COMPLETE frames of quest_id a connection is sent
C30_Frames(frames, conn_id, quest_id) ==
    {i \in DOMAIN frames :
        /\ frames[i].to = conn_id
        /\ frames[i].type_id = "QUEST_COMPLETE"
        /\ frames[i].id = quest_id}

\* C30 for one event of a player: a quest of the player that was active is
\* completed by the event exactly if the event leaves all its objectives at
\* current = required.  It is then out of the active set and in the completed
\* set, its rewards are returned in one completion, announced in one frame,
\* and a second check returns nothing; otherwise it stays active with the
\* progress of the event, and nothing is returned.  No progress exceeds
\* required.
C30_Event(player_id, event) ==
    LET qt == quest_trackers[player_id]
        u == update_objective(qt, event[1], event[2], event[3])
        r == quest_updates(qt, event[1], event[2], event[3])
        after == update_quest_objectives(Self, player_id, event[1], event[2],
                                         event[3])
    IN  \A q \in DOMAIN qt.active_quests :
          /\ \A i \in DOMAIN u.qt.active_quests[q].objectives :
                u.qt.active_quests[q].objectives[i].current
                   <= u.qt.active_quests[q].objectives[i].required
          /\ IF C30_Saturated(u.qt.active_quests[q])
             THEN /\ q \notin DOMAIN r.qt.active_quests
                  /\ q \in r.qt.completed_quests
                  /\ Cardinality(C30_Completions(r.completions, q)) = 1
                  /\ \A i \in C30_Completions(r.completions, q) :
                        r.completions[i].rewards = get_quest_by_id(q).rewards
                  /\ ~check_completion(r.qt, q).completed
                  /\ Cardinality(C30_Frames(after.frames,
                                            player_to_conn[player_id], q)) = 1
                  /\ after.quest_trackers[player_id] = r.qt
             ELSE /\ q \in DOMAIN r.qt.active_quests
                  /\ r.qt.active_quests[q] = u.qt.active_quests[q]
                  /\ q \in r.qt.completed_quests <=> q \in qt.completed_quests
                  /\ C30_Completions(r.completions, q) = {}
                  /\ C30_Frames(after.frames, player_to_conn[player_id], q)
                        = {}

\* C30: a quest is completed exactly when all of its objectives have
\* current = required: it is then removed from the active set, added to the
\* completed set and its rewards are returned once; the progress of an
\* objective never exceeds required, and no quest stays active with all its
\* objectives at required.
C30_QuestCompletion ==
    \A player_id \in DOMAIN quest_trackers :
      /\ \A q \in DOMAIN quest_trackers[player_id].active_quests :
            /\ ~C30_Saturated(quest_trackers[player_id].active_quests[q])
            /\ \A i \in DOMAIN quest_trackers[player_id].active_quests[q]
                                   .objectives :
                  quest_trackers[player_id].active_quests[q].objectives[i]
                     .current
                  <= quest_trackers[player_id].active_quests[q].objectives[i]
                        .required
      /\ \A event \in QuestEvents : C30_Event(player_id, event)

\* C30, witness: player 1 has completed system_explorer by visiting both
\* zones, the quest is no longer active, its 300 OMEN and 400 XP are credited
\* once, and the daily mining quest is active at 67 of 100 after two events.
C30_Witness ==
    /\ "system_explorer" \in quest_trackers[1].completed_quests
    /\ "system_explorer" \notin DOMAIN quest_trackers[1].active_quests
    /\ "daily_mining" \in DOMAIN quest_trackers[2].active_quests
    /\ quest_trackers[2].active_quests["daily_mining"].objectives[1].current
          = 67
    /\ get_player(Self, 1).inventory.omen_balance
          = STARTING_OMEN + 300 * CENTS
    /\ player_progression[1].xp = 400

\* ------------------------------------------------------- claims: equipment

\* The units of item a player holds: in its inventory and in its slots.
C31_Held(zs, equipment, player_id, item) ==
    LET in_zone == {z \in DOMAIN zs : player_id \in DOMAIN zs[z]}
    IN  SumOver([z \in in_zone |-> zs[z][player_id].inventory.items[item]],
                in_zone)
        + Cardinality({slot \in DOMAIN equipment[player_id] :
                          equipment[player_id][slot] = item})

\* C31: an equip or an unequip (the steps that change a slot) leaves the
\* multiset of the items each player holds, inventory plus equipped, as it
\* was.
C31_EquipConserves ==
    [][player_equipment' # player_equipment =>
          \A p \in DOMAIN player_equipment, item \in ItemTypes :
              C31_Held(zones', player_equipment', p, item)
                 = C31_Held(zones, player_equipment, p, item)]_vars

\* C31, the steps the handlers get right: an equip, into an empty slot or
\* into an occupied one, leaves what each player holds as it was.
C31_EquipSwaps ==
    [][/\ player_equipment' # player_equipment
       /\ \E p \in DOMAIN player_equipment, slot \in DOMAIN PlayerEquipment_new :
             player_equipment'[p][slot] # NoItem
       => \A p \in DOMAIN player_equipment, item \in ItemTypes :
              C31_Held(zones', player_equipment', p, item)
                 = C31_Held(zones, player_equipment, p, item)]_vars

\* ------------------------------------------------- claims: market holdings

\* The units of item the players of zs hold, plus the unfilled quantity of
\* the live sell orders of m for the item.
C32_Items(zs, m, item) ==
    LET held == UNION {{<<z, p>> : p \in DOMAIN zs[z]} : z \in DOMAIN zs}
        sells == {n \in DOMAIN m.orders_by_id :
                    /\ Live(m.orders_by_id[n])
                    /\ m.orders_by_id[n].side = "Sell"
                    /\ m.orders_by_id[n].item_type = item}
    IN  SumOver([h \in held |-> zs[h[1]][h[2]].inventory.items[item]], held)
        + SumOver([n \in sells |-> m.orders_by_id[n].quantity
                                     - m.orders_by_id[n].filled_quantity],
                  sells)

\* The OMEN the players of zs hold, plus the OMEN escrowed in the live buy
\* orders of m.
C32_Omen(zs, m) ==
    LET held == UNION {{<<z, p>> : p \in DOMAIN zs[z]} : z \in DOMAIN zs}
        buys == {n \in DOMAIN m.orders_by_id :
                    /\ Live(m.orders_by_id[n])
                    /\ m.orders_by_id[n].side = "Buy"}
    IN  FAdd(FSum([h \in held |-> zs[h[1]][h[2]].inventory.omen_balance],
                  held),
             FSum([n \in buys |-> FMul(m.orders_by_id[n].quantity
                                         - m.orders_by_id[n].filled_quantity,
                                       m.orders_by_id[n].price_per_unit)],
                  buys))

\* The filled quantity of order n of m, 0 if m has no such order.
C32_Filled(m, n) ==
    IF n \in DOMAIN m.orders_by_id THEN m.orders_by_id[n].filled_quantity
    ELSE 0

\* C32: each step of the market (place with its matches, cancel) leaves, for
\* each item, the units held by the players plus the unfilled quantity of the
\* live sell orders as it was; the OMEN held plus the OMEN escrowed in live
\* buy orders does not grow, and is as it was if the step fills no order.
C32_MarketConserves ==
    [][/\ \A item \in TradedItems :
             C32_Items(zones', market', item) = C32_Items(zones, market, item)
       /\ FLe(C32_Omen(zones', market'), C32_Omen(zones, market))
       /\ (\A n \in DOMAIN market'.orders_by_id :
              C32_Filled(market', n) = C32_Filled(market, n))
          => C32_Omen(zones', market') = C32_Omen(zones, market)]_vars

\* C32, the items alone.
C32_ItemsConserved ==
    [][\A item \in TradedItems :
          C32_Items(zones', market', item)
             = C32_Items(zones, market, item)]_vars

\* --------------------------------------------------------- claims: main

\* C33: the outbound queue of every accepted connection is registered with
\* the game loop before a frame from the connection or a disconnect event for
\* it is handled, so every connection whose HELLO was processed has been
\* handed a WELCOME.
C33_RegisteredFirst ==
    /\ net.early = {}
    /\ net.helloed \subseteq net.welcomed

\* C34: in the channel to the game loop no frame of a connection follows the
\* 0xFF marker of the connection, and a connection whose marker has been
\* handled has no player.
C34_NothingAfterSentinel ==
    /\ \A i, j \in DOMAIN net.rx :
          (i < j /\ net.rx[i].data = "0xFF")
             => net.rx[j].conn_id # net.rx[i].conn_id
    /\ \A conn_id \in net.closed : conn_id \notin DOMAIN conn_to_player

\* C35: whenever a player is dead (its hit points are 0) its death time is set
\* and is the time at which its hit points reached 0: damage done to the
\* player while it stays dead does not change it.
C35_DeathTimeKept ==
    \A p \in DOMAIN player_combat_stats :
        is_dead(player_combat_stats[p]) =>
            /\ p \in DOMAIN player_death_times
            /\ p \in DOMAIN died_at
            /\ player_death_times[p] # NoTime
            /\ player_death_times[p] = died_at[p]

\* C36: an NPC whose hit points a step brings to 0 is no longer in the
\* population of the manager after the step, and the respawn queue then holds
\* an entry of its type and zone with the respawn time of the type in the zone.
C36_NpcDeath ==
    [][\A k \in DOMAIN npcs :
          (npcs[k].alive /\ npcs[k].hp > 0) =>
             \/ k \in DOMAIN npcs' /\ npcs'[k].hp > 0
             \/ /\ k \notin DOMAIN npcs'
                /\ \E i \in DOMAIN respawn_queue' :
                      /\ respawn_queue'[i].npc_type = npcs[k].npc_type
                      /\ respawn_queue'[i].zone_id = npcs[k].zone_id
                      /\ find_config(npcs[k].zone_id, npcs[k].npc_type) # << >>
                      /\ respawn_queue'[i].timer_ms =
                            find_config(npcs[k].zone_id,
                                        npcs[k].npc_type)[1].respawn_time_ms]_vars

\* C36: damage_npc with damage that takes the last hit points of a live NPC
\* returns a death event.
C36_DeathEvent ==
    \A k \in DOMAIN npcs, d \in SpawnDraws :
        (npcs[k].alive /\ npcs[k].hp > 0) =>
            damage_npc([npcs |-> npcs, respawn_queue |-> respawn_queue],
                       k, npcs[k].hp, 1, d).event.is_some

\* C37: a player completes a quest that is not repeatable, and is granted its
\* rewards, at most once, whatever disconnects and new HELLOs lie between.
C37_CompletedOnce ==
    \A pq \in DOMAIN quest_completions :
        ~get_quest_by_id(pq[2]).is_repeatable => quest_completions[pq] <= 1

\* Whether order a may stand before order b in the list of the side: a has the
\* better price (the higher of two buys, the lower of two sells), or the same
\* price and is not the later of the two.
C38_InOrder(side, a, b) ==
    \/ IF side = "Buy" THEN FGt(a.price_per_unit, b.price_per_unit)
       ELSE FLt(a.price_per_unit, b.price_per_unit)
    \/ /\ ~IsNaN(a.price_per_unit)
       /\ a.price_per_unit = b.price_per_unit
       /\ a.created_at <= b.created_at

\* C38: after any sequence of place and cancel requests the buys of every
\* book are sorted by price, highest first, and at equal price by created_at,
\* earliest first, and the sells by price, lowest first, and then by
\* created_at; orders whose price is not a number are left out of the
\* comparison.
C38_BookSorted ==
    \A item \in DOMAIN market.order_books :
        LET book == market.order_books[item]
            PricedPairs(list) ==
                {ij \in (DOMAIN list) \X (DOMAIN list) :
                    /\ ij[1] < ij[2]
                    /\ ~IsNaN(list[ij[1]].price_per_unit)
                    /\ ~IsNaN(list[ij[2]].price_per_unit)}
        IN  /\ \A ij \in PricedPairs(book.buys) :
                 C38_InOrder("Buy", book.buys[ij[1]], book.buys[ij[2]])
            /\ \A ij \in PricedPairs(book.sells) :
                 C38_InOrder("Sell", book.sells[ij[1]], book.sells[ij[2]])

\* C39: in every step in which no node of a zone is refilled, the nodes of the
\* zone lose exactly as much as the inventories of the players of the zone
\* gain: what a miner's tick takes from the node is what it adds to the
\* miner's inventory.
C39_MiningConserves ==
    [][\A z \in DOMAIN resource_nodes :
          LET ks == DOMAIN resource_nodes[z]
              ps == (DOMAIN zones[z]) \cap (DOMAIN zones'[z])
              lost == [k \in ks |-> resource_nodes[z][k].current_amount
                                     - resource_nodes'[z][k].current_amount]
              gained == [p \in ps |-> Inventory_total(zones'[z][p].inventory)
                                       - Inventory_total(zones[z][p].inventory)]
          IN  (\A k \in ks : lost[k] >= 0) =>
                 SumOver(lost, ks) = SumOver(gained, ps)]_vars

\* Whether the claim lets an NPC that is npc as the tick starts be in the state
\* of after when it ends: one of the transitions of the claim leads from the
\* one state to the other and its condition holds as the tick starts.
C40_Allowed(npc, after) ==
    LET template == get_npc_template(npc.npc_type)
        players == get_active_players(Self, npc.zone_id)
        d2(p) == dist_sq(npc.x, npc.y, zones[npc.zone_id][p].x,
                         zones[npc.zone_id][p].y)
        aggro2 == template.aggro_range * template.aggro_range
        attack2 == template.attack_range * template.attack_range
        target == npc.target_player_id
        from == npc.behavior_state
        to == after.behavior_state
    IN  \/ /\ from = "Idle" /\ to = "Patrol"
           /\ npc.idle_timer + TICK_INTERVAL_MS >= IDLE_TIME_MS
        \/ /\ from = "Patrol" /\ to = "Chase"
           /\ \E p \in players : d2(p) <= aggro2
        \/ /\ from = "Chase" /\ to = "Attack"
           /\ target \in players /\ d2(target) <= attack2
        \/ /\ from = "Chase" /\ to = "Patrol"
           /\ (target \in players => 4 * d2(target) > 9 * aggro2)
        \/ /\ from = "Attack" /\ to = "Chase"
           /\ target \in players /\ d2(target) > attack2
        \/ /\ to = "Flee"
           /\ npc.hp * 100 <= template.flee_threshold * template.max_hp
        \/ /\ from = "Flee" /\ to = "Patrol"
           /\ npc.hp * 100 > 2 * template.flee_threshold * template.max_hp

\* C40: a pirate or a bounty hunter changes its state only along the
\* transitions of the claim: Idle to Patrol after 2 s, Patrol to Chase with a
\* player within aggro_range, Chase to Attack with the target within
\* attack_range, Chase to Patrol with the target beyond 1.5 x aggro_range or
\* gone, Attack to Chase with the target out of attack_range, any state to
\* Flee at the flee threshold, Flee to Patrol above twice the threshold.
C40_PirateTransitions ==
    [][\A k \in (DOMAIN npcs) \cap (DOMAIN npcs') :
          (/\ npcs[k].npc_type \in {"Pirate", "BountyHunter"}
           /\ npcs'[k].behavior_state # npcs[k].behavior_state) =>
              C40_Allowed(npcs[k], npcs'[k])]_vars

====
